---- MODULE Spec2Model ----
(***************************************************************************)
(* Model of the awards workflow of alnlabs/awards-api: the request         *)
(* handlers of app/api/v1 (cycles, nominations, panel assignments, awards) *)
(* and the sweeps of app/core/lifecycle, over the tables of app/models.    *)
(* A handler that returns through failure_response raises before           *)
(* db.commit(), so the session is closed without a commit and none of its  *)
(* writes reach the store.                                                 *)
(***************************************************************************)
EXTENDS Integers, Sequences, FiniteSets, TLC

\* ------------------------------------------------------------------ bounds
MaxDay == 3
MaxCycles == 1
MaxNoms == 2
MaxNomsFew == 1
MaxAssign == 2
MaxReviews == 2
MaxAwards == 2
MaxSessions == 2
MaxPanelRows == 1
MaxMemberReviews == 3
MaxJobs == 1
MaxCyclePair == 2
MaxForms == 3
MaxRows == 2

\* ------------------------------------------------------------ the store
VARIABLES
    today,        \* date.today()
    cycles,       \* table cycles: sequence of rows, the index is the id
    nominations,  \* table nominations
    answers,      \* table form_answers: set of <<nomination_id, field_key>>
    assignments,  \* table panel_assignments
    reviews,      \* table panel_reviews
    awards,       \* table awards
    users,        \* table users: email -> row
    forms,        \* table forms: id -> row
    bulk_jobs,    \* table bulk_jobs: sequence of rows, the index is the id
    panel_members, \* table panel_members: the ids of its rows
    panel_tasks,  \* table panel_tasks: the ids of its rows
    resp,         \* the response of the last request
    session       \* the requests in flight: the set of their uncommitted sessions

tables == <<cycles, nominations, answers, assignments, reviews, awards>>
\* the tables the handlers of cycles, nominations, panels and awards never write
roster == <<panel_members, panel_tasks>>
directory == <<users, forms, bulk_jobs, panel_members, panel_tasks>>
vars == <<today, cycles, nominations, answers, assignments, reviews, awards,
          users, forms, bulk_jobs, panel_members, panel_tasks, resp, session>>

None == "None"
Days == 1..MaxDay
\* an optional date of a patch: 0 is "not in the payload"
OptDays == 0..MaxDay
Given(d) == d > 0

\* app/models/cycle.py: the members of CycleStatus
CycleStatus == {"DRAFT", "OPEN", "CLOSED", "FINALIZED"}
\* what a request can send as a status string: the members, and strings that are none
StatusInputs == CycleStatus \cup {"ACTIVE"}
\* the order of the lifecycle DRAFT -> OPEN -> CLOSED -> FINALIZED
StatusRank(s) == CASE s = "DRAFT" -> 0 [] s = "OPEN" -> 1 [] s = "ACTIVE" -> 1
                   [] s = "CLOSED" -> 2 [] s = "FINALIZED" -> 3

\* update_nomination_status: valid = [...]
NominationStatus == {"SUBMITTED", "PANEL_REVIEW", "HR_REVIEW", "FINALIZED"}
NonTerminal == {"SUBMITTED", "PANEL_REVIEW", "HR_REVIEW"}

\* the employees that are nominated (app/models/user.py)
Users == {"u1", "u2"}
\* the accounts that call the handlers, by role (app/models/user.py: UserRole)
Hr == "hr"
Managers == {"mg1", "mg2"}
\* user.role
Role(u) == IF u = Hr THEN "HR" ELSE IF u \in Managers THEN "MANAGER"
           ELSE IF u \in {"r1", "r2"} THEN "PANEL" ELSE "EMPLOYEE"
\* db.get(User, id) and user.is_active
ActiveUser(u) == u \in DOMAIN users /\ users[u].is_active
\* award types: one active, one inactive
AwardTypes == {"at_active", "at_inactive"}
AwardTypeValid(at) == at = "at_active"

\* one active form with a required and an optional field (app/models/form.py)
FieldKeys == {"k_req", "k_opt"}
RequiredKeys == {"k_req"}

\* panels, their members and tasks (app/models/panel*.py)
Panels == {"P1", "P2"}
PanelIdInputs == Panels \cup {"P_missing"}
Members == {"m1", "m2", "m3"}
MemberPanel(m) == IF m = "m3" THEN "P2" ELSE "P1"
Tasks == {"t1", "t2", "t3"}
TaskPanel(t) == IF t = "t3" THEN "P2" ELSE "P1"
\* P1 has two required tasks, P2 has none
TaskRequired(t) == t \in {"t1", "t2"}
\* the users who sit on panels: m1 and m3 are the same user on two panels
PanelUsers == {"r1", "r2"}
MemberUser(m) == IF m = "m2" THEN "r2" ELSE "r1"

\* a deleted row keeps its id (a UUID is never reused) and nothing else
DeletedNom == [cycle_id |-> 0, nominee_id |-> None, nominated_by_id |-> None,
               status |-> "DELETED"]
DeletedAssign == [nomination_id |-> 0, panel_id |-> None, status |-> "DELETED"]
DeletedReview == [panel_assignment_id |-> 0, panel_member_id |-> None,
                  panel_task_id |-> None, score |-> 0, comment |-> None]
DeletedAward == [cycle_id |-> 0, nomination_id |-> 0, winner_id |-> None,
                 award_type |-> None, rank |-> 0, comment |-> None,
                 is_active |-> FALSE, finalized |-> FALSE]

NomIds == {i \in DOMAIN nominations : nominations[i] # DeletedNom}
AssignIds == {i \in DOMAIN assignments : assignments[i] # DeletedAssign}
ReviewIds == {i \in DOMAIN reviews : reviews[i] # DeletedReview}
AwardIds == {i \in DOMAIN awards : awards[i] # DeletedAward}
CycleIds == DOMAIN cycles

Respond(op, code, err) == resp' = [op |-> op, code |-> code, err |-> err, data |-> {}]
\* a read: the rows it returns
RespondData(op, data) == resp' = [op |-> op, code |-> 200, err |-> None, data |-> data]
\* failure_response raises HTTPException: the session is never committed
Fail(op, code, err) == Respond(op, code, err) /\ UNCHANGED tables

\* no request is in flight; the sweep of app/core/lifecycle.py runs at startup,
\* outside the requests
\* and the bulk worker runs in a process of its own
NoSession == \A s \in session : s.op \in {"auto_close", "process_bulk_job"}
Slots == 1..MaxSessions
FreeSlot(k) == \A s \in session : s.slot # k

EmptyStore ==
    /\ cycles = <<>>
    /\ nominations = <<>>
    /\ answers = {}
    /\ assignments = <<>>
    /\ reviews = <<>>
    /\ awards = <<>>
    /\ resp = [op |-> "start", code |-> 200, err |-> None, data |-> {}]
    /\ session = {}

\* ---------------------------------------------------------------- cycles

\* create_cycle: if payload.end_date < payload.start_date
EndBeforeStart(start_date, end_date) == end_date < start_date

create_cycle(start_date, end_date, status, award_type_id) ==
    /\ NoSession
    /\ UNCHANGED <<today, directory, session>>
    /\ IF EndBeforeStart(start_date, end_date)
       THEN Fail("create_cycle", 400, "End date must be after start date")
       ELSE IF status # None /\ status \notin CycleStatus
       THEN Fail("create_cycle", 400, "Invalid status")
       ELSE IF award_type_id # None /\ ~AwardTypeValid(award_type_id)
       THEN Fail("create_cycle", 400, "Invalid or inactive award type")
       ELSE /\ cycles' = Append(cycles,
                   [status |-> IF status = None THEN "DRAFT" ELSE status,
                    start_date |-> start_date, end_date |-> end_date])
            /\ Respond("create_cycle", 201, None)
            /\ UNCHANGED <<nominations, answers, assignments, reviews, awards>>

\* the rows update_cycle's drop branch deletes, as the tables it leaves
NomsOfCycle(noms, cid) == {i \in DOMAIN noms : noms[i] # DeletedNom /\ noms[i].cycle_id = cid}
AssignsOfNoms(asg, ids) ==
    {i \in DOMAIN asg : asg[i] # DeletedAssign /\ asg[i].nomination_id \in ids}

\* a drop that leaves the awards of the cycle in place
KeepAwards(aw, cid) == aw

\* db.query(Award).filter(Award.cycle_id == cycle_id).delete()

DropAwards(aw, cid) ==
    [i \in DOMAIN aw |-> IF aw[i] # DeletedAward /\ aw[i].cycle_id = cid
                         THEN DeletedAward ELSE aw[i]]
DeleteReviewsOf(rv, asgIds) ==
    [i \in DOMAIN rv |-> IF rv[i] # DeletedReview /\ rv[i].panel_assignment_id \in asgIds
                         THEN DeletedReview ELSE rv[i]]
DeleteAssignments(asg, ids) ==
    [i \in DOMAIN asg |-> IF i \in AssignsOfNoms(asg, ids) THEN DeletedAssign ELSE asg[i]]
DeleteAnswers(ans, ids) == {a \in ans : a[1] \notin ids}
DeleteNoms(noms, ids) ==
    [i \in DOMAIN noms |-> IF i \in ids THEN DeletedNom ELSE noms[i]]

\* an early close that clears the data without being asked to
IsDropUnasked(cycle, new_status, end_date, drop_cycle) ==
    /\ new_status = "CLOSED"
    /\ cycle.status # "CLOSED"
    /\ today < end_date

\* update_cycle: the early-close branch that clears the cycle's data
IsDrop(cycle, new_status, end_date, drop_cycle) ==
    /\ new_status = "CLOSED"
    /\ cycle.status # "CLOSED"
    /\ today < end_date
    /\ drop_cycle = TRUE

\* update_cycle: the date check, made only under `if payload.end_date is not None`
DateCheckFails(p_start, p_end, start_date, end_date) ==
    Given(p_end) /\ end_date < start_date

\* the session of update_cycle after its statements and before db.commit():
\* what the commit would write, or the failure it raised on the way
UpdateCycleSession(cycle_id, p_start, p_end, p_status, drop_cycle, award_type_id) ==
    LET cycle == cycles[cycle_id]
        start_date == IF Given(p_start) THEN p_start ELSE cycle.start_date
        end_date == IF Given(p_end) THEN p_end ELSE cycle.end_date
        drop == p_status # None /\ IsDrop(cycle, p_status, end_date, drop_cycle)
        ids == NomsOfCycle(nominations, cycle_id)
        same == [cycles |-> cycles, nominations |-> nominations, answers |-> answers,
                 assignments |-> assignments, reviews |-> reviews, awards |-> awards,
                 dropped |-> FALSE, cycle_id |-> cycle_id, nomination_ids |-> ids]
    IN  IF DateCheckFails(p_start, p_end, start_date, end_date)
        THEN same @@ [code |-> 400, err |-> "End date must be after start date"]
        ELSE IF p_status # None /\ p_status \notin CycleStatus
        THEN same @@ [code |-> 400, err |-> "Invalid status"]
        ELSE [cycles |-> [cycles EXCEPT ![cycle_id] =
                            [status |-> IF p_status # None THEN p_status ELSE cycle.status,
                             start_date |-> start_date, end_date |-> end_date]],
              awards |-> IF drop THEN DropAwards(awards, cycle_id) ELSE awards,
              reviews |-> IF drop
                          THEN DeleteReviewsOf(reviews, AssignsOfNoms(assignments, ids))
                          ELSE reviews,
              assignments |-> IF drop THEN DeleteAssignments(assignments, ids)
                              ELSE assignments,
              answers |-> IF drop THEN DeleteAnswers(answers, ids) ELSE answers,
              nominations |-> IF drop THEN DeleteNoms(nominations, ids) ELSE nominations,
              dropped |-> drop,
              cycle_id |-> cycle_id,
              nomination_ids |-> ids]
             @@ (IF award_type_id # None /\ ~AwardTypeValid(award_type_id)
                 THEN [code |-> 400, err |-> "Invalid or inactive award type"]
                 ELSE [code |-> 200, err |-> None])

\* db.commit(): the session's writes reach the store together
Commit(s) ==
    /\ cycles' = s.cycles
    /\ nominations' = s.nominations
    /\ answers' = s.answers
    /\ assignments' = s.assignments
    /\ reviews' = s.reviews
    /\ awards' = s.awards

\* the name a response carries: a request that ran the drop branch is told apart
UpdateCycleOp(s) == IF s.dropped THEN "update_cycle_drop" ELSE "update_cycle"

update_cycle(cycle_id, p_start, p_end, p_status, drop_cycle, award_type_id) ==
    /\ NoSession
    /\ cycle_id \in CycleIds
    /\ UNCHANGED <<today, directory, session>>
    /\ LET s == UpdateCycleSession(cycle_id, p_start, p_end, p_status, drop_cycle, award_type_id)
       IN  IF s.code # 200
           THEN Fail(UpdateCycleOp(s), s.code, s.err)
           ELSE Commit(s) /\ Respond(UpdateCycleOp(s), 200, None)

\* app/core/lifecycle.py: auto_open_active_cycles filters on CycleStatus.ACTIVE,
\* which is not a member of CycleStatus, so the attribute lookup raises before
\* the query is built
auto_open_active_cycles ==
    /\ NoSession
    /\ Fail("auto_open", 500, "AttributeError")
    /\ UNCHANGED <<today, directory, session>>

\* a sweep that closes every cycle past its end date
AnyExpired(cycle) == cycle.end_date < today

\* auto_close_expired_cycles: the filters of its query
ExpiredOpen(cycle) == cycle.status = "OPEN" /\ cycle.end_date < today
ExpiredCycles == {i \in CycleIds : ExpiredOpen(cycles[i])}

\* cycle.status = CycleStatus.CLOSED for the cycles the query returned
CloseCycles(cy, ids) ==
    [i \in DOMAIN cy |-> IF i \in ids THEN [cy[i] EXCEPT !.status = "CLOSED"] ELSE cy[i]]

\* the response carries the cycles closed (the function returns their count)
auto_close_expired_cycles ==
    /\ NoSession
    /\ cycles' = CloseCycles(cycles, ExpiredCycles)
    /\ RespondData("auto_close", ExpiredCycles)
    /\ UNCHANGED <<today, directory, session, nominations, answers, assignments, reviews, awards>>

\* the clock: date.today() moves on
Tick ==
    /\ NoSession
    /\ today < MaxDay
    /\ today' = today + 1
    /\ UNCHANGED <<tables, directory, resp, session>>

\* ----------------------------------------------------------- nominations
\* db.get(Form, id) and form.is_active
Forms == {f \in DOMAIN forms : forms[f].is_active}
FormInputs == {"f1", "f_missing"}
UserInputs == Users \cup {"u_missing"}

\* submit_nomination: the pre-check for a nomination of the pair still under way
ExistingNomination(cycle_id, nominee_id) ==
    \E i \in NomIds : /\ nominations[i].cycle_id = cycle_id
                      /\ nominations[i].nominee_id = nominee_id
                      /\ nominations[i].status \in NonTerminal

\* the gate without its date window
CycleGate_StatusOnly(cycle) ==
    IF cycle.status # "OPEN" THEN "Must be OPEN" ELSE None

\* submit_nomination: the cycle gate (status, then the date window)
CycleGate(cycle) ==
    IF cycle.status # "OPEN" THEN "Must be OPEN"
    ELSE IF today < cycle.start_date THEN "The nomination window has not opened yet."
    ELSE IF today > cycle.end_date THEN "The nomination window for this cycle has already closed."
    ELSE None

\* a form whose fields are all optional
NoMissingKeys(answer_keys) == {}

\* required_keys - answer_keys
MissingKeys(answer_keys) == RequiredKeys \ answer_keys

\* the checks of submit_nomination up to the insert: the failure, or None
SubmitChecks(cycle_id, form_id, nominee_id, answer_keys) ==
    IF cycle_id \notin CycleIds THEN [code |-> 404, err |-> "Cycle not found"]
    ELSE IF CycleGate(cycles[cycle_id]) # None
    THEN [code |-> 400, err |-> CycleGate(cycles[cycle_id])]
    ELSE IF form_id \notin Forms THEN [code |-> 404, err |-> "Form not found"]
    ELSE IF ~ActiveUser(nominee_id) THEN [code |-> 404, err |-> "Invalid nominee"]
    ELSE IF ExistingNomination(cycle_id, nominee_id)
    THEN [code |-> 400, err |-> "Nomination already exists for this employee"]
    ELSE IF MissingKeys(answer_keys) # {}
    THEN [code |-> 400, err |-> "Missing required fields"]
    ELSE [code |-> 201, err |-> None]

\* db.add(nomination); db.flush(); db.add(FormAnswer ...); db.commit()
InsertNomination(user, cycle_id, nominee_id, answer_keys) ==
    /\ nominations' = Append(nominations,
           [cycle_id |-> cycle_id, nominee_id |-> nominee_id, nominated_by_id |-> user,
            status |-> "SUBMITTED"])
    /\ answers' = answers \cup {<<Len(nominations) + 1, k>> : k \in answer_keys}

submit_nomination(user, cycle_id, form_id, nominee_id, answer_keys) ==
    /\ NoSession
    /\ UNCHANGED <<today, directory, session>>
    /\ LET c == SubmitChecks(cycle_id, form_id, nominee_id, answer_keys)
       IN  IF c.code # 201
           THEN Fail("submit_nomination", c.code, c.err)
           ELSE /\ InsertNomination(user, cycle_id, nominee_id, answer_keys)
                /\ Respond("submit_nomination", 201, None)
                /\ UNCHANGED <<cycles, assignments, reviews, awards>>

\* a move to FINALIZED without conditions
NoFinalizeGate(nomination, status) == None

\* update_nomination_status: the two conditions on a move to FINALIZED
FinalizeGate(nomination, status) ==
    IF status # "FINALIZED" THEN None
    ELSE IF cycles[nomination.cycle_id].status \notin {"CLOSED", "FINALIZED"}
    THEN "Cannot finalize nominations until the nomination window is closed"
    ELSE IF nomination.status # "HR_REVIEW"
    THEN "Can only finalize nominations that are in HR_REVIEW status"
    ELSE None

update_nomination_status(nomination_id, status) ==
    /\ NoSession
    /\ UNCHANGED <<today, directory, session>>
    /\ IF status \notin NominationStatus
       THEN Fail("update_nomination_status", 400, "Invalid status")
       ELSE IF nomination_id \notin NomIds
       THEN Fail("update_nomination_status", 404, "Nomination not found")
       ELSE IF FinalizeGate(nominations[nomination_id], status) # None
       THEN Fail("update_nomination_status", 400, FinalizeGate(nominations[nomination_id], status))
       ELSE /\ nominations' = [nominations EXCEPT ![nomination_id].status = status]
            /\ Respond("update_nomination_status", 200, None)
            /\ UNCHANGED <<cycles, answers, assignments, reviews, awards>>

\* deletion without the award check
NoAwardCheck(ids) == FALSE

\* delete_nomination / delete_all_nominations_for_cycle: the award check
ActiveAwardOf(ids) ==
    \E a \in AwardIds : awards[a].nomination_id \in ids /\ awards[a].is_active

\* reviews -> assignments -> answers -> nominations, one commit
CascadeDelete(ids) ==
    /\ reviews' = DeleteReviewsOf(reviews, AssignsOfNoms(assignments, ids))
    /\ assignments' = DeleteAssignments(assignments, ids)
    /\ answers' = DeleteAnswers(answers, ids)
    /\ nominations' = DeleteNoms(nominations, ids)

delete_nomination(nomination_id) ==
    /\ NoSession
    /\ UNCHANGED <<today, directory, session>>
    /\ IF nomination_id \notin NomIds
       THEN Fail("delete_nomination", 404, "Nomination not found")
       ELSE IF ActiveAwardOf({nomination_id})
       THEN Fail("delete_nomination", 400, "Cannot delete nomination with associated award")
       ELSE /\ CascadeDelete({nomination_id})
            /\ Respond("delete_nomination", 200, None)
            /\ UNCHANGED <<cycles, awards>>

delete_all_nominations_for_cycle(cycle_id) ==
    /\ NoSession
    /\ UNCHANGED <<today, directory, session>>
    /\ IF cycle_id \notin CycleIds
       THEN Fail("delete_all_nominations", 404, "Cycle not found")
       ELSE IF NomsOfCycle(nominations, cycle_id) = {}
       THEN Respond("delete_all_nominations", 200, "No nominations found for this cycle")
            /\ UNCHANGED tables
       ELSE IF ActiveAwardOf(NomsOfCycle(nominations, cycle_id))
       THEN Fail("delete_all_nominations", 400, "Cannot delete nominations with associated awards")
       ELSE /\ CascadeDelete(NomsOfCycle(nominations, cycle_id))
            /\ Respond("delete_all_nominations", 200, None)
            /\ UNCHANGED <<cycles, awards>>

\* ------------------------------------------------------ panel assignments
ExistingPanelIds(nomination_id) ==
    {assignments[i].panel_id : i \in AssignsOfNoms(assignments, {nomination_id})}

\* the loop of assign_panels_to_nomination: one row per listed id that was not
\* assigned when the request began (existing_panel_ids is not updated in the loop)
NewPanelIds(nomination_id, panel_ids) ==
    SelectSeq(panel_ids, LAMBDA p : p \notin ExistingPanelIds(nomination_id))

\* rows that start out COMPLETED
NewAssignmentRowsCompleted(nomination_id, ids) ==
    [k \in 1..Len(ids) |->
        [nomination_id |-> nomination_id, panel_id |-> ids[k], status |-> "COMPLETED"]]

\* PanelAssignment(nomination_id=..., panel_id=..., status="PENDING")

NewAssignmentRows(nomination_id, ids) ==
    [k \in 1..Len(ids) |->
        [nomination_id |-> nomination_id, panel_id |-> ids[k], status |-> "PENDING"]]

assign_panels_to_nomination(nomination_id, panel_ids) ==
    /\ NoSession
    /\ UNCHANGED <<today, directory, session>>
    /\ IF nomination_id \notin NomIds
       THEN Fail("assign_panels", 404, "Invalid nomination")
       ELSE LET new == NewPanelIds(nomination_id, panel_ids)
            IN  IF \E k \in DOMAIN new : new[k] \notin Panels
                THEN Fail("assign_panels", 404, "Invalid panel")
                ELSE IF Len(new) = 0
                THEN Fail("assign_panels", 400, "All selected panels are already assigned")
                ELSE /\ assignments' = assignments \o NewAssignmentRows(nomination_id, new)
                     /\ nominations' = [nominations EXCEPT ![nomination_id].status = "PANEL_REVIEW"]
                     /\ Respond("assign_panels", 201, None)
                     /\ UNCHANGED <<cycles, answers, reviews, awards>>

\* ----------------------------------------------------------- panel reviews
\* the caller's PanelMember row on the assignment's panel, or None
PanelMemberOf(panel_id, user) ==
    IF \E m \in panel_members : MemberPanel(m) = panel_id /\ MemberUser(m) = user
    THEN CHOOSE m \in panel_members : MemberPanel(m) = panel_id /\ MemberUser(m) = user
    ELSE None

\* the rows of one (assignment, member, task) triple in a reviews table
ReviewRows(rv, assignment_id, member, task_id) ==
    {i \in DOMAIN rv : /\ rv[i].panel_assignment_id = assignment_id
                       /\ rv[i].panel_member_id = member
                       /\ rv[i].panel_task_id = task_id}

RequiredTaskIds(panel_id) ==
    {t \in panel_tasks : TaskPanel(t) = panel_id /\ TaskRequired(t)}

\* the tasks the member has reviewed on the assignment, the request's own row
\* (flushed before the query) included
ReviewedTaskIds(assignment_id, member, task_id) ==
    {reviews[i].panel_task_id :
        i \in {j \in DOMAIN reviews : /\ reviews[j].panel_assignment_id = assignment_id
                                      /\ reviews[j].panel_member_id = member}}
    \cup {task_id}

\* completion on any review
CompleteOnAnyReview(assignment_id, panel_id, member, task_id) == TRUE

\* completion that counts the reviews of every member of the panel
CompleteByAnyMember(assignment_id, panel_id, member, task_id) ==
    RequiredTaskIds(panel_id) \subseteq
        ({reviews[i].panel_task_id :
             i \in {j \in DOMAIN reviews : reviews[j].panel_assignment_id = assignment_id}}
         \cup {task_id})

\* required_task_ids.issubset(reviewed_task_ids)
AssignmentComplete(assignment_id, panel_id, member, task_id) ==
    RequiredTaskIds(panel_id) \subseteq ReviewedTaskIds(assignment_id, member, task_id)

\* all(a.status == "COMPLETED" for a in all_assignments), the request's own
\* assignment already set COMPLETED in its session
AllCompleted(assignment_id, nomination_id) ==
    \A i \in AssignsOfNoms(assignments, {nomination_id}) :
        i = assignment_id \/ assignments[i].status = "COMPLETED"

\* a review of any task
AnyTask(task_id, panel_id) == TRUE

\* submit_panel_review: not task or task.panel_id != assignment.panel_id
TaskOfPanel(task_id, panel_id) ==
    task_id \in panel_tasks /\ TaskPanel(task_id) = panel_id

\* the session of submit_panel_review after its reads: the failure it raised, or
\* the writes its commit will make (found = 0: no row of the triple was read)
ReviewSession(assignment_id, task_id, user, score, comment) ==
    IF assignment_id \notin AssignIds
    THEN [code |-> 404, err |-> "Invalid assignment"]
    ELSE LET a == assignments[assignment_id]
             member == PanelMemberOf(a.panel_id, user)
             rows == ReviewRows(reviews, assignment_id, member, task_id)
             done == AssignmentComplete(assignment_id, a.panel_id, member, task_id)
         IN  IF member = None THEN [code |-> 403, err |-> "Access denied"]
             ELSE IF ~TaskOfPanel(task_id, a.panel_id)
             THEN [code |-> 400, err |-> "Invalid task"]
             ELSE [code |-> 201, err |-> None, op |-> "submit_panel_review",
                   assignment_id |-> assignment_id, member |-> member, task_id |-> task_id,
                   score |-> score, comment |-> comment,
                   found |-> IF rows = {} THEN 0 ELSE CHOOSE i \in rows : TRUE,
                   complete |-> done,
                   nomination_id |-> a.nomination_id,
                   promote |-> done /\ AllCompleted(assignment_id, a.nomination_id)]

\* the store refuses the insert without the constraint
NoConstraint(assignment_id, member, task_id) == FALSE

\* app/models/panel_review.py: uq_unique_task_review refuses a second row of a triple
UniqueTaskReviewViolated(assignment_id, member, task_id) ==
    ReviewRows(reviews, assignment_id, member, task_id) # {}

\* the INSERT or UPDATE of the review fails in the store: a second row of the
\* triple, or the row read is gone
ReviewWriteFails(s) ==
    IF s.found = 0
    THEN UniqueTaskReviewViolated(s.assignment_id, s.member, s.task_id)
    ELSE reviews[s.found] = DeletedReview

\* what the commit of submit_panel_review writes
ApplyReview(s) ==
    /\ reviews' = IF s.found # 0
                  THEN [reviews EXCEPT ![s.found].score = s.score, ![s.found].comment = s.comment]
                  ELSE Append(reviews,
                          [panel_assignment_id |-> s.assignment_id, panel_member_id |-> s.member,
                           panel_task_id |-> s.task_id, score |-> s.score, comment |-> s.comment])
    /\ assignments' = IF s.complete
                      THEN [assignments EXCEPT ![s.assignment_id].status = "COMPLETED"]
                      ELSE assignments
    /\ nominations' = IF s.promote
                      THEN [nominations EXCEPT ![s.nomination_id].status = "HR_REVIEW"]
                      ELSE nominations
    /\ UNCHANGED <<cycles, answers, awards>>

submit_panel_review(assignment_id, task_id, user, score, comment) ==
    /\ NoSession
    /\ UNCHANGED <<today, directory, session>>
    /\ LET s == ReviewSession(assignment_id, task_id, user, score, comment)
       IN  IF s.code # 201
           THEN Fail("submit_panel_review", s.code, s.err)
           ELSE ApplyReview(s) /\ Respond("submit_panel_review", 201, None)

\* ---------------------------------------------------------------- awards
\* awards in a cycle of any status
AnyCycleStatus(cycle) == TRUE

\* create_award: cycle.status not in [OPEN, CLOSED]
AwardingWindow(cycle) == cycle.status \in {"OPEN", "CLOSED"}

\* the check that lets any active user win
AnyWinner(nomination, winner_id) == TRUE

\* create_award: nomination.nominee_id != payload.winner_id
WinnerIsNominee(nomination, winner_id) == nomination.nominee_id = winner_id

\* create_award: the query for an active award of the nomination
ExistingAward(nomination_id) ==
    \E a \in AwardIds : awards[a].nomination_id = nomination_id /\ awards[a].is_active

\* create_award: Award(...) of a payload that leaves out the optional award_type
\* and rank; rank 0 is "no rank"
NewAward(cycle_id, nomination_id, winner_id) ==
    [cycle_id |-> cycle_id, nomination_id |-> nomination_id, winner_id |-> winner_id,
     award_type |-> None, rank |-> 0, comment |-> None,
     is_active |-> TRUE, finalized |-> FALSE]

\* the check that takes a nomination of any cycle
NominationOfAnyCycle(nomination, cycle_id) == TRUE

\* create_award: nomination.cycle_id != payload.cycle_id
NominationOfCycle(nomination, cycle_id) == nomination.cycle_id = cycle_id

CreateAwardChecks(cycle_id, nomination_id, winner_id) ==
    IF cycle_id \notin CycleIds THEN [code |-> 404, err |-> "Cycle not found"]
    ELSE IF ~AwardingWindow(cycles[cycle_id])
    THEN [code |-> 400, err |-> "Awards cannot be created in this cycle status"]
    ELSE IF nomination_id \notin NomIds THEN [code |-> 404, err |-> "Nomination not found"]
    ELSE IF ~NominationOfCycle(nominations[nomination_id], cycle_id)
    THEN [code |-> 400, err |-> "Nomination does not belong to this cycle"]
    ELSE IF nominations[nomination_id].status \notin NominationStatus
    THEN [code |-> 400, err |-> "Nomination must be in a valid status"]
    ELSE IF ~ActiveUser(winner_id)
    THEN [code |-> 404, err |-> "Winner not found or inactive"]
    ELSE IF ~WinnerIsNominee(nominations[nomination_id], winner_id)
    THEN [code |-> 400, err |-> "Winner must be the nominee"]
    ELSE IF ExistingAward(nomination_id)
    THEN [code |-> 400, err |-> "Award already exists for this nomination"]
    ELSE [code |-> 201, err |-> None]

create_award(cycle_id, nomination_id, winner_id) ==
    /\ NoSession
    /\ UNCHANGED <<today, directory, session>>
    /\ LET c == CreateAwardChecks(cycle_id, nomination_id, winner_id)
       IN  IF c.code # 201
           THEN Fail("create_award", c.code, c.err)
           ELSE /\ awards' = Append(awards, NewAward(cycle_id, nomination_id, winner_id))
                /\ Respond("create_award", 201, None)
                /\ UNCHANGED <<cycles, nominations, answers, assignments, reviews>>

\* awards that can be edited in a cycle of any status
EditableAnyTime(cycle) == TRUE

\* update_award: cycle.status != CycleStatus.FINALIZED
WinnersAnnounced(cycle) == cycle.status = "FINALIZED"

\* update_award: the fields of the payload that are not None replace the award's
PatchAward(award, award_type, rank, comment) ==
    [award EXCEPT !.award_type = IF award_type # None THEN award_type ELSE @,
                  !.rank = IF rank # 0 THEN rank ELSE @,
                  !.comment = IF comment # None THEN comment ELSE @]

update_award(award_id, award_type, rank, comment) ==
    /\ NoSession
    /\ UNCHANGED <<today, directory, session>>
    /\ IF award_id \notin AwardIds
       THEN Fail("update_award", 404, "Award not found")
       ELSE IF ~awards[award_id].is_active
       THEN Fail("update_award", 400, "Award is inactive")
       ELSE IF awards[award_id].cycle_id \notin CycleIds
       THEN Fail("update_award", 404, "Cycle not found")
       ELSE IF ~WinnersAnnounced(cycles[awards[award_id].cycle_id])
       THEN Fail("update_award", 400, "Awards cannot be modified until winners are announced")
       ELSE /\ awards' = [awards EXCEPT
                             ![award_id] = PatchAward(@, award_type, rank, comment)]
            /\ Respond("update_award", 200, None)
            /\ UNCHANGED <<cycles, nominations, answers, assignments, reviews>>

\* finalization allowed again on a finalized cycle
NeverFinalized(cycle) == FALSE

\* finalize_awards: cycle.status == CycleStatus.FINALIZED
AlreadyFinalized(cycle) == cycle.status = "FINALIZED"

ActiveAwardsOfCycle(cycle_id) ==
    {a \in AwardIds : awards[a].cycle_id = cycle_id /\ awards[a].is_active}

finalize_awards(cycle_id) ==
    /\ NoSession
    /\ UNCHANGED <<today, directory, session>>
    /\ IF cycle_id \notin CycleIds
       THEN Fail("finalize_awards", 404, "Cycle not found")
       ELSE IF AlreadyFinalized(cycles[cycle_id])
       THEN Fail("finalize_awards", 400, "Cycle already finalized")
       ELSE IF ActiveAwardsOfCycle(cycle_id) = {}
       THEN Fail("finalize_awards", 400, "No awards found for this cycle")
       ELSE /\ awards' = [a \in DOMAIN awards |->
                            IF a \in ActiveAwardsOfCycle(cycle_id)
                            THEN [awards[a] EXCEPT !.finalized = TRUE] ELSE awards[a]]
            /\ cycles' = [cycles EXCEPT ![cycle_id].status = "FINALIZED"]
            /\ Respond("finalize_awards", 200, None)
            /\ UNCHANGED <<nominations, answers, assignments, reviews>>

\* ------------------------------------------------- panel members and tasks
\* remove_panel_member: SELECT 1 FROM panel_reviews WHERE panel_member_id = ...
MemberHasReviews(member_id) ==
    \E r \in ReviewIds : reviews[r].panel_member_id = member_id

\* delete_panel_task: SELECT 1 FROM panel_reviews WHERE panel_task_id = ...
TaskHasReviews(task_id) ==
    \E r \in ReviewIds : reviews[r].panel_task_id = task_id

remove_panel_member(panel_id, member_id) ==
    /\ NoSession
    /\ UNCHANGED <<today, tables, users, forms, bulk_jobs, panel_tasks, session>>
    /\ IF member_id \notin panel_members \/ MemberPanel(member_id) # panel_id
       THEN Respond("remove_panel_member", 404, "Panel member not found")
            /\ UNCHANGED panel_members
       ELSE IF MemberHasReviews(member_id)
       THEN Respond("remove_panel_member", 400, "Panel member has already submitted reviews")
            /\ UNCHANGED panel_members
       ELSE /\ panel_members' = panel_members \ {member_id}
            /\ Respond("remove_panel_member", 204, None)

delete_panel_task(panel_id, task_id) ==
    /\ NoSession
    /\ UNCHANGED <<today, tables, users, forms, bulk_jobs, panel_members, session>>
    /\ IF task_id \notin panel_tasks \/ TaskPanel(task_id) # panel_id
       THEN Respond("delete_panel_task", 404, "Panel task not found")
            /\ UNCHANGED panel_tasks
       ELSE IF TaskHasReviews(task_id)
       THEN Respond("delete_panel_task", 400, "Task already reviewed and cannot be deleted")
            /\ UNCHANGED panel_tasks
       ELSE /\ panel_tasks' = panel_tasks \ {task_id}
            /\ Respond("delete_panel_task", 204, None)

\* ------------------------------------------------- requests in steps
\* A request whose reads and commit are separate steps: the session it opens
\* holds what it read and what it will write; other requests run in between.

\* a flush that would make the statements issued so far durable
FlushCommits(s) == Commit(s)

\* the statements a session has flushed stay in its transaction
Flush(s) == UNCHANGED tables

\* update_cycle up to db.flush(): the deletes are issued, nothing is committed
update_cycle_begin(slot, cycle_id, p_start, p_end, p_status, drop_cycle, award_type_id) ==
    /\ FreeSlot(slot)
    /\ cycle_id \in CycleIds
    /\ \A s \in session : s.op # "update_cycle"
    /\ UNCHANGED <<today, directory>>
    /\ LET s == UpdateCycleSession(cycle_id, p_start, p_end, p_status, drop_cycle, award_type_id)
       IN  IF s.err \in {"End date must be after start date", "Invalid status"}
           THEN Fail("update_cycle", s.code, s.err) /\ UNCHANGED session
           ELSE /\ session' = session \cup {s @@ [slot |-> slot, op |-> "update_cycle"]}
                /\ Flush(s)
                /\ UNCHANGED resp

\* update_cycle from the award type check to db.commit()
update_cycle_finish(slot) ==
    \E s \in session :
        /\ s.slot = slot /\ s.op = "update_cycle"
        /\ session' = session \ {s}
        /\ UNCHANGED <<today, directory>>
        /\ IF s.code # 200
           THEN Fail(UpdateCycleOp(s), s.code, s.err)
           ELSE Commit(s) /\ Respond(UpdateCycleOp(s), 200, None)

\* list_nominations: the nomination ids of the assignments joined with
\* panel_reviews
ReviewedNominations ==
    {assignments[reviews[i].panel_assignment_id].nomination_id :
        i \in {j \in ReviewIds : reviews[j].panel_assignment_id \in AssignIds}}

\* list_nominations with a cycle_id: a read of the committed rows, filtered by
\* the caller's role
list_nominations(user, cycle_id) ==
    /\ RespondData("list_nominations",
                   {n \in NomsOfCycle(nominations, cycle_id) :
                       /\ Role(user) = "MANAGER" => nominations[n].nominated_by_id = user
                       /\ Role(user) = "PANEL" => n \in ReviewedNominations})
    /\ UNCHANGED <<today, directory, tables, session>>

\* nomination_history with a cycle_id
nomination_history(user, cycle_id) ==
    /\ RespondData("nomination_history",
                   {n \in NomsOfCycle(nominations, cycle_id) :
                       Role(user) = "MANAGER" => nominations[n].nominated_by_id = user})
    /\ UNCHANGED <<today, directory, tables, session>>

\* get_nomination: db.get by id, no test of the caller
get_nomination(user, nomination_id) ==
    /\ UNCHANGED <<today, directory, session>>
    /\ IF nomination_id \notin NomIds
       THEN Fail("get_nomination", 404, "Nomination not found")
       ELSE RespondData("get_nomination", {nomination_id}) /\ UNCHANGED tables

\* submit_nomination up to its last check
submit_nomination_begin(slot, user, cycle_id, form_id, nominee_id, answer_keys) ==
    /\ FreeSlot(slot)
    /\ UNCHANGED <<today, directory>>
    /\ LET c == SubmitChecks(cycle_id, form_id, nominee_id, answer_keys)
       IN  IF c.code # 201
           THEN Fail("submit_nomination", c.code, c.err) /\ UNCHANGED session
           ELSE /\ session' = session \cup
                       {[slot |-> slot, op |-> "submit_nomination", user |-> user,
                         cycle_id |-> cycle_id,
                         nominee_id |-> nominee_id, answer_keys |-> answer_keys]}
                /\ UNCHANGED <<tables, resp>>

\* submit_nomination from db.add(nomination) to db.commit(): the nominations
\* table has no constraint on (cycle_id, nominee_id), so the insert goes through
submit_nomination_commit(slot) ==
    \E s \in session :
        /\ s.slot = slot /\ s.op = "submit_nomination"
        /\ session' = session \ {s}
        /\ InsertNomination(s.user, s.cycle_id, s.nominee_id, s.answer_keys)
        /\ Respond("submit_nomination", 201, None)
        /\ UNCHANGED <<today, directory, cycles, assignments, reviews, awards>>

\* submit_panel_review up to the reads of its auto-complete block
submit_panel_review_begin(slot, assignment_id, task_id, user, score, comment) ==
    /\ FreeSlot(slot)
    /\ UNCHANGED <<today, directory>>
    /\ LET s == ReviewSession(assignment_id, task_id, user, score, comment)
       IN  IF s.code # 201
           THEN Fail("submit_panel_review", s.code, s.err) /\ UNCHANGED session
           ELSE /\ session' = session \cup {s @@ [slot |-> slot]}
                /\ UNCHANGED <<tables, resp>>

\* the writes of submit_panel_review reach the store, or the store refuses them
submit_panel_review_commit(slot) ==
    \E s \in session :
        /\ s.slot = slot /\ s.op = "submit_panel_review"
        /\ session' = session \ {s}
        /\ UNCHANGED <<today, directory>>
        /\ IF ReviewWriteFails(s)
           THEN Fail("submit_panel_review", 500, "IntegrityError")
           ELSE ApplyReview(s) /\ Respond("submit_panel_review", 201, None)

\* create_award up to its last check, the query for an active award
create_award_begin(slot, cycle_id, nomination_id, winner_id) ==
    /\ FreeSlot(slot)
    /\ UNCHANGED <<today, directory>>
    /\ LET c == CreateAwardChecks(cycle_id, nomination_id, winner_id)
       IN  IF c.code # 201
           THEN Fail("create_award", c.code, c.err) /\ UNCHANGED session
           ELSE /\ session' = session \cup
                       {[slot |-> slot, op |-> "create_award", cycle_id |-> cycle_id,
                         nomination_id |-> nomination_id, winner_id |-> winner_id]}
                /\ UNCHANGED <<tables, resp>>

\* create_award from db.add(award) to db.commit(): the awards table has no
\* constraint on nomination_id, so the insert goes through
create_award_commit(slot) ==
    \E s \in session :
        /\ s.slot = slot /\ s.op = "create_award"
        /\ session' = session \ {s}
        /\ awards' = Append(awards, NewAward(s.cycle_id, s.nomination_id, s.winner_id))
        /\ Respond("create_award", 201, None)
        /\ UNCHANGED <<today, directory, cycles, nominations, answers, assignments, reviews>>

\* auto_close_expired_cycles up to its query: the cycles it will close
auto_close_begin(slot) ==
    /\ FreeSlot(slot)
    /\ UNCHANGED <<today, directory, tables>>
    /\ IF ExpiredCycles = {}
       THEN RespondData("auto_close", {}) /\ UNCHANGED session
       ELSE /\ session' = session \cup
                   {[slot |-> slot, op |-> "auto_close", expired |-> ExpiredCycles]}
            /\ UNCHANGED resp

\* auto_close_expired_cycles from the loop to db.commit(): an UPDATE by id of
\* each cycle the query returned
auto_close_commit(slot) ==
    \E s \in session :
        /\ s.slot = slot /\ s.op = "auto_close"
        /\ session' = session \ {s}
        /\ cycles' = CloseCycles(cycles, s.expired)
        /\ RespondData("auto_close", s.expired)
        /\ UNCHANGED <<today, directory, nominations, answers, assignments, reviews, awards>>

\* ------------------------------------------------------- users and auth
OkAuth == [code |-> 200, err |-> None]

\* an authentication that lets a deactivated account through
AuthErrorIgnoresActive(user, roles) ==
    IF user \notin DOMAIN users THEN [code |-> 401, err |-> "User not found"]
    ELSE IF Role(user) \notin roles THEN [code |-> 403, err |-> "Insufficient permissions"]
    ELSE OkAuth

\* app/core/auth.py: get_current_user for the token of `user`, then the
\* role_checker of require_role(*roles)
AuthError(user, roles) ==
    IF user \notin DOMAIN users THEN [code |-> 401, err |-> "User not found"]
    ELSE IF ~users[user].is_active THEN [code |-> 403, err |-> "User account is inactive"]
    ELSE IF Role(user) \notin roles THEN [code |-> 403, err |-> "Insufficient permissions"]
    ELSE OkAuth

\* a handler behind its dependency: the dependency raises before the handler runs
Request(user, roles, op, handler) ==
    IF AuthError(user, roles) # OkAuth
    THEN /\ NoSession
         /\ Respond(op, AuthError(user, roles).code, AuthError(user, roles).err)
         /\ UNCHANGED <<today, tables, directory, session>>
    ELSE handler

\* login with an email and a password that verifies or not, no role in the payload
login(email, password_ok) ==
    /\ NoSession
    /\ UNCHANGED <<today, tables, directory, session>>
    /\ IF email \notin DOMAIN users \/ ~password_ok
       THEN Respond("login", 401, "Invalid email or password")
       ELSE IF ~users[email].is_active
       THEN Respond("login", 403, "User account is inactive")
       ELSE Respond("login", 200, None)

\* delete_user: the soft delete
delete_user(user, user_id) ==
    Request(user, {"HR"}, "delete_user",
        /\ NoSession
        /\ UNCHANGED <<today, tables, roster, forms, bulk_jobs, session>>
        /\ IF user_id \notin DOMAIN users
           THEN Respond("delete_user", 404, "User does not exist") /\ UNCHANGED users
           ELSE IF user_id = user
           THEN Respond("delete_user", 400, "Cannot delete your own account")
                /\ UNCHANGED users
           ELSE /\ users' = [users EXCEPT ![user_id].is_active = FALSE]
                /\ Respond("delete_user", 200, None))

\* update_user with a payload of is_active alone
update_user(user, user_id, is_active) ==
    Request(user, {"HR"}, "update_user",
        /\ NoSession
        /\ UNCHANGED <<today, tables, roster, forms, bulk_jobs, session>>
        /\ IF user_id \notin DOMAIN users
           THEN Respond("update_user", 404, "User does not exist") /\ UNCHANGED users
           ELSE /\ users' = [users EXCEPT ![user_id].is_active = is_active]
                /\ Respond("update_user", 200, None))

\* ---------------------------------------------------------------- forms
\* the ids the forms table hands out, in order
FormIdOrder == <<"f1", "f2", "f3">>

\* create_form / update_form: len(field_keys) != len(set(field_keys))
DuplicateKeys(field_keys) ==
    Cardinality({field_keys[i] : i \in DOMAIN field_keys}) # Len(field_keys)

\* create_form: the query for an active form of the same name
ExistingForm(name) == \E f \in DOMAIN forms : forms[f].name = name /\ forms[f].is_active

create_form(name, field_keys) ==
    /\ NoSession
    /\ UNCHANGED <<today, tables, roster, users, bulk_jobs, session>>
    /\ IF ExistingForm(name)
       THEN Respond("create_form", 400, "Criteria with this name already exists")
            /\ UNCHANGED forms
       ELSE IF DuplicateKeys(field_keys)
       THEN Respond("create_form", 400, "Field keys must be unique") /\ UNCHANGED forms
       ELSE /\ forms' = forms @@
                   (FormIdOrder[Cardinality(DOMAIN forms) + 1] :>
                       [name |-> name, fields |-> field_keys, is_active |-> TRUE])
            /\ Respond("create_form", 201, None)

\* update_form: the name is assigned with no query for another form that has it
update_form(form_id, name, field_keys) ==
    /\ NoSession
    /\ UNCHANGED <<today, tables, roster, users, bulk_jobs, session>>
    /\ IF form_id \notin Forms
       THEN Respond("update_form", 404, "Invalid criteria ID") /\ UNCHANGED forms
       ELSE IF DuplicateKeys(field_keys)
       THEN Respond("update_form", 400, "Field keys must be unique") /\ UNCHANGED forms
       ELSE /\ forms' = [forms EXCEPT ![form_id].name = name, ![form_id].fields = field_keys]
            /\ Respond("update_form", 200, None)

\* ------------------------------------------------------------ bulk jobs
\* app/models/bulk_job.py: a job as the uploader stores it, counters at their
\* defaults, payload.rows in rows
NewBulkJob(type, rows) ==
    [type |-> type, status |-> "queued", total |-> Len(rows), processed |-> 0,
     success_count |-> 0, failure_count |-> 0, rows |-> rows]

enqueue_bulk_job(type, rows) ==
    /\ bulk_jobs' = Append(bulk_jobs, NewBulkJob(type, rows))
    /\ UNCHANGED <<today, tables, roster, users, forms, resp, session>>

TerminalStatus == {"completed", "failed", "cancelled"}

\* cancel_bulk_job
cancel_bulk_job(job_id) ==
    /\ NoSession
    /\ UNCHANGED <<today, tables, roster, users, forms, session>>
    /\ IF job_id \notin DOMAIN bulk_jobs
       THEN Respond("cancel_bulk_job", 404, "Job not found") /\ UNCHANGED bulk_jobs
       ELSE IF bulk_jobs[job_id].status \in TerminalStatus
       THEN Respond("cancel_bulk_job", 400, "Cannot cancel job") /\ UNCHANGED bulk_jobs
       ELSE /\ bulk_jobs' = [bulk_jobs EXCEPT ![job_id].status = "cancelled"]
            /\ Respond("cancel_bulk_job", 200, None)

\* app/services/user_service.py: create_user_internal, the ValueError it raises
\* or None; a row carries no employee_code
CreateUserError(row) ==
    IF row.questions # 3 THEN "Exactly 3 security questions required"
    ELSE IF row.email = None THEN "Email is required"
    ELSE IF row.email \in DOMAIN users THEN "Email already exists"
    ELSE IF row.role \notin {"HR", "MANAGER", "EMPLOYEE", "PANEL"} THEN "Invalid role"
    ELSE IF row.role = "HR" THEN "HR users cannot be bulk created"
    ELSE None

\* process_bulk_delete_job: the ValueError of a row, or None
DeleteUserError(row) ==
    IF row.email \notin DOMAIN users THEN "User not found" ELSE None

\* the exception the try block of a row raises, or None
RowError(type, row) ==
    IF type = "upload" THEN CreateUserError(row) ELSE DeleteUserError(row)

\* the users table after a row that went through
ApplyRow(type, row) ==
    IF type = "upload"
    THEN users @@ (row.email :> [is_active |-> TRUE])
    ELSE [users EXCEPT ![row.email].is_active = FALSE]

\* counters that count a row only when it succeeds
CountSuccessesOnly(job, ok) ==
    IF ok THEN [job EXCEPT !.success_count = @ + 1, !.processed = @ + 1] ELSE job

\* counters that book a failed row as a success
CountEveryRowAsSuccess(job, ok) ==
    [job EXCEPT !.success_count = @ + 1, !.processed = @ + 1]

\* job.success_count += 1 or job.failure_count += 1, then job.processed += 1
CountRow(job, ok) ==
    [job EXCEPT !.success_count = IF ok THEN @ + 1 ELSE @,
                !.failure_count = IF ok THEN @ ELSE @ + 1,
                !.processed = @ + 1]

\* the worker of a job: its session, by slot
WorkerAt(slot, pc) ==
    {s \in session : s.slot = slot /\ s.op = "process_bulk_job" /\ s.pc = pc}

\* process_bulk_job / process_bulk_delete_job: job = db.get(BulkJob, job_id);
\* the queue hands a job to one worker
worker_begin(slot, job_id) ==
    /\ FreeSlot(slot)
    /\ job_id \in DOMAIN bulk_jobs
    /\ bulk_jobs[job_id].status \in {"queued", "cancelled"}
    /\ \A s \in session : s.op = "process_bulk_job" => s.job # job_id
    /\ UNCHANGED <<today, tables, directory, resp>>
    /\ IF bulk_jobs[job_id].status = "cancelled"
       THEN UNCHANGED session
       ELSE session' = session \cup
                {[slot |-> slot, op |-> "process_bulk_job", job |-> job_id,
                  pc |-> "start", idx |-> 0, errors |-> {}]}

\* job.status = "processing"; db.commit(): an UPDATE by id of the status read
\* by worker_begin
worker_mark_processing(slot) ==
    \E s \in WorkerAt(slot, "start") :
        /\ bulk_jobs' = [bulk_jobs EXCEPT ![s.job].status = "processing"]
        /\ session' = (session \ {s}) \cup {[s EXCEPT !.pc = "loop"]}
        /\ UNCHANGED <<today, tables, roster, users, forms, resp>>

\* one pass of the loop: db.refresh(job), the cancel test, the row, the
\* counters and db.commit(); the commit writes the counters, not the status
worker_row(slot) ==
    \E s \in WorkerAt(slot, "loop") :
        LET job == bulk_jobs[s.job]
            row == job.rows[s.idx + 1]
            ok == RowError(job.type, row) = None
        IN  /\ s.idx < Len(job.rows)
            /\ UNCHANGED <<today, tables, roster, forms, resp>>
            /\ IF job.status = "cancelled"
               THEN /\ session' = session \ {s}
                    /\ UNCHANGED <<users, bulk_jobs>>
               ELSE /\ users' = IF ok THEN ApplyRow(job.type, row) ELSE users
                    /\ bulk_jobs' = [bulk_jobs EXCEPT ![s.job] = CountRow(job, ok)]
                    /\ session' = (session \ {s}) \cup
                           {[s EXCEPT !.idx = @ + 1,
                                      !.errors = IF ok THEN @ ELSE @ \cup {s.idx + 1}]}

\* the head of a pass of the loop: db.refresh(job) and the cancel test; a job
\* read as cancelled ends the worker, its commit writes updated_at alone
worker_row_begin(slot) ==
    \E s \in WorkerAt(slot, "loop") :
        /\ s.idx < Len(bulk_jobs[s.job].rows)
        /\ UNCHANGED <<today, tables, directory, resp>>
        /\ IF bulk_jobs[s.job].status = "cancelled"
           THEN session' = session \ {s}
           ELSE session' = (session \ {s}) \cup {[s EXCEPT !.pc = "row"]}

\* the rest of the pass: the row, the counters and db.commit(), an UPDATE by id
\* of the counters that leaves the status column as it is stored
worker_row_commit(slot) ==
    \E s \in WorkerAt(slot, "row") :
        LET job == bulk_jobs[s.job]
            row == job.rows[s.idx + 1]
            ok == RowError(job.type, row) = None
        IN  /\ UNCHANGED <<today, tables, roster, forms, resp>>
            /\ users' = IF ok THEN ApplyRow(job.type, row) ELSE users
            /\ bulk_jobs' = [bulk_jobs EXCEPT ![s.job] = CountRow(job, ok)]
            /\ session' = (session \ {s}) \cup
                   {[s EXCEPT !.pc = "loop", !.idx = @ + 1,
                              !.errors = IF ok THEN @ ELSE @ \cup {s.idx + 1}]}

\* after the loop: the error CSV is written, then db.refresh(job) and the test
\* of the status
worker_finish(slot) ==
    \E s \in WorkerAt(slot, "loop") :
        /\ s.idx = Len(bulk_jobs[s.job].rows)
        /\ UNCHANGED <<today, tables, directory, resp>>
        /\ IF bulk_jobs[s.job].status = "cancelled"
           THEN session' = session \ {s}
           ELSE session' = (session \ {s}) \cup {[s EXCEPT !.pc = "complete"]}

\* job.status = "completed"; db.commit()
worker_complete(slot) ==
    \E s \in WorkerAt(slot, "complete") :
        /\ bulk_jobs' = [bulk_jobs EXCEPT ![s.job].status = "completed"]
        /\ session' = session \ {s}
        /\ UNCHANGED <<today, tables, roster, users, forms, resp>>

\* an exception outside the try block of a row, here the open() of the error
\* CSV: db.rollback(); job.status = "failed"; db.commit()
worker_crash(slot) ==
    \E s \in WorkerAt(slot, "loop") :
        /\ s.idx = Len(bulk_jobs[s.job].rows)
        /\ s.errors # {}
        /\ bulk_jobs' = [bulk_jobs EXCEPT ![s.job].status = "failed"]
        /\ session' = session \ {s}
        /\ UNCHANGED <<today, tables, roster, users, forms, resp>>

\* ------------------------------------------------------- specifications
Opt(S) == S \cup {None}

\* the accounts, the form and the panels a deployment is set up with
SeedData ==
    /\ users = [u \in Users \cup Managers \cup PanelUsers \cup {Hr} |-> [is_active |-> TRUE]]
    /\ forms = [f \in {"f1"} |->
                  [name |-> "n1", fields |-> <<"k_req", "k_opt">>, is_active |-> TRUE]]
    /\ bulk_jobs = <<>>
    /\ panel_members = Members
    /\ panel_tasks = Tasks

Init == today = 1 /\ EmptyStore /\ SeedData

\* the payloads of PATCH /cycles/{id}: a patch of the dates, or a patch of the
\* status with its drop_cycle flag and award type
CyclePatches ==
    {p \in [sd : OptDays, ed : OptDays, st : Opt(StatusInputs), dc : BOOLEAN,
            at : Opt(AwardTypes)] :
        \/ p.st = None /\ ~p.dc /\ p.at = None
        \/ p.sd = 0 /\ p.ed = 0}
StatusPatches == {p \in CyclePatches : p.sd = 0 /\ p.ed = 0 /\ p.st # None}
\* a patch of the status alone
PlainStatusPatches == {p \in StatusPatches : ~p.dc /\ p.at = None}
\* a patch to CLOSED, with or without drop_cycle
ClosePatches == {p \in StatusPatches : p.st = "CLOSED"}

\* lists of panel ids of a request body, up to two entries
PanelIdLists ==
    {<<>>} \cup {<<p>> : p \in PanelIdInputs}
           \cup {<<p, q>> : p \in PanelIdInputs, q \in PanelIdInputs}

\* the bodies of a review: a score with its comment
ReviewPayloads == {[score |-> 1, comment |-> None], [score |-> 2, comment |-> "c"]}

CycleRequests ==
    \/ \E sd \in Days, ed \in Days, st \in Opt(StatusInputs), at \in Opt(AwardTypes) :
          Len(cycles) < MaxCycles /\ create_cycle(sd, ed, st, at)
    \/ \E c \in CycleIds, p \in CyclePatches : update_cycle(c, p.sd, p.ed, p.st, p.dc, p.at)
    \/ auto_open_active_cycles
    \/ auto_close_expired_cycles
    \/ Tick

\* the cycle lifecycle, with the nominations and awards finalize_awards needs
NextCycle ==
    \/ CycleRequests
    \/ \E c \in 1..MaxCycles, f \in FormInputs, u \in UserInputs, ks \in SUBSET FieldKeys :
          Len(nominations) < MaxNomsFew /\ submit_nomination("mg1", c, f, u, ks)
    \/ \E c \in 1..MaxCycles, n \in 1..MaxNomsFew, u \in UserInputs :
          Len(awards) < MaxAwards /\ create_award(c, n, u)
    \/ \E c \in 1..MaxCycles : finalize_awards(c)

SpecCycle == Init /\ [][NextCycle]_vars

\* a cycle whose window spans the days of the clock, in any status
NewCycleAnyStatus ==
    \E st \in CycleStatus : Len(cycles) < MaxCycles /\ create_cycle(1, MaxDay, st, None)
NewOpenCycle == Len(cycles) < MaxCycles /\ create_cycle(1, MaxDay, "OPEN", None)
SetCycleStatus ==
    \E c \in CycleIds, p \in StatusPatches : update_cycle(c, 0, 0, p.st, p.dc, p.at)
SetCycleStatusOnly ==
    \E c \in CycleIds, p \in PlainStatusPatches : update_cycle(c, 0, 0, p.st, p.dc, p.at)
\* a complete nomination
ValidSubmit ==
    \E c \in 1..MaxCycles, u \in Users :
        Len(nominations) < MaxNoms /\ submit_nomination("mg1", c, "f1", u, RequiredKeys)
OneValidSubmit ==
    \E c \in 1..MaxCycles, u \in Users :
        Len(nominations) < MaxNomsFew /\ submit_nomination("mg1", c, "f1", u, RequiredKeys)
AssignPanels ==
    \E n \in 1..MaxNoms, ps \in PanelIdLists :
        /\ Len(assignments) + Len(ps) <= MaxAssign
        /\ assign_panels_to_nomination(n, ps)
\* the review would add a row
ReviewInserts(a, t, u) ==
    LET s == ReviewSession(a, t, u, 1, None) IN s.code = 201 /\ s.found = 0
SubmitReview ==
    \E a \in 1..MaxAssign, t \in Tasks, u \in PanelUsers, r \in ReviewPayloads :
        /\ ReviewInserts(a, t, u) => Len(reviews) < MaxReviews
        /\ submit_panel_review(a, t, u, r.score, r.comment)
\* one panel assigned, one review row
AssignOnePanel ==
    \E n \in 1..MaxNoms, p \in PanelIdInputs :
        /\ Len(assignments) < MaxPanelRows
        /\ assign_panels_to_nomination(n, <<p>>)
SubmitOneReview ==
    \E a \in 1..MaxPanelRows, t \in Tasks, u \in PanelUsers :
        /\ ReviewInserts(a, t, u) => Len(reviews) < MaxPanelRows
        /\ submit_panel_review(a, t, u, 1, None)

\* the nomination workflow within one day
NextNom ==
    \/ NewOpenCycle
    \/ SetCycleStatusOnly
    \/ ValidSubmit
    \/ \E n \in 1..MaxNoms, st \in NominationStatus \cup {"DRAFT"} :
          update_nomination_status(n, st)
    \/ AssignOnePanel
    \/ SubmitOneReview
    \/ \E n \in 1..MaxNoms : delete_nomination(n)
    \/ \E c \in 1..MaxCycles : delete_all_nominations_for_cycle(c)

SpecNom == Init /\ [][NextNom]_vars

\* panel assignment and review of the nominations of an open cycle
NextPanel ==
    \/ NewOpenCycle
    \/ ValidSubmit
    \/ AssignPanels
    \/ SubmitReview

SpecPanel == Init /\ [][NextPanel]_vars

\* a request opens its session in the lowest free slot
LowestFree(k) == FreeSlot(k) /\ \A j \in 1..(k - 1) : ~FreeSlot(j)

\* reviews submitted by requests that overlap
NextReviewRace ==
    \/ NewOpenCycle
    \/ OneValidSubmit
    \/ AssignOnePanel
    \/ \E k \in Slots, a \in 1..MaxPanelRows, t \in Tasks, u \in PanelUsers, r \in ReviewPayloads :
          /\ LowestFree(k)
          /\ ReviewInserts(a, t, u) => Len(reviews) + Cardinality(session) < MaxReviews
          /\ submit_panel_review_begin(k, a, t, u, r.score, r.comment)
    \/ \E k \in Slots : submit_panel_review_commit(k)

SpecReviewRace == Init /\ [][NextReviewRace]_vars

\* nominations submitted by requests that overlap
NextSubmitRace ==
    \/ NewOpenCycle
    \/ \E k \in Slots, c \in 1..MaxCycles, f \in FormInputs, u \in UserInputs,
          ks \in SUBSET FieldKeys :
          /\ LowestFree(k)
          /\ Len(nominations) + Cardinality(session) < MaxNoms
          /\ submit_nomination_begin(k, "mg1", c, f, u, ks)
    \/ \E k \in Slots : submit_nomination_commit(k)
    \/ \E n \in 1..MaxNoms, st \in NominationStatus : update_nomination_status(n, st)

SpecSubmitRace == Init /\ [][NextSubmitRace]_vars

\* reviews of one nomination whose status HR also sets by hand
NextPromote ==
    \/ NewOpenCycle
    \/ OneValidSubmit
    \/ AssignPanels
    \/ \E a \in 1..MaxAssign, t \in Tasks, u \in PanelUsers :
          /\ ReviewInserts(a, t, u) => Len(reviews) < MaxMemberReviews
          /\ submit_panel_review(a, t, u, 1, None)
    \/ \E n \in 1..MaxNomsFew, st \in NominationStatus : update_nomination_status(n, st)

SpecPromote == Init /\ [][NextPromote]_vars

\* awards of the nominations of a cycle
NextAward ==
    \/ NewCycleAnyStatus
    \/ SetCycleStatus
    \/ ValidSubmit
    \/ \E n \in 1..MaxNoms, st \in NominationStatus : update_nomination_status(n, st)
    \/ \E c \in 1..MaxCycles, n \in 1..MaxNoms, u \in UserInputs :
          Len(awards) < MaxAwards /\ create_award(c, n, u)
    \/ \E c \in 1..MaxCycles : finalize_awards(c)
    \/ \E n \in 1..MaxNoms : delete_nomination(n)

SpecAward == Init /\ [][NextAward]_vars

\* the rows of a payload: a new user, an email already taken, an HR user, a row
\* short of security questions
UploadRows ==
    {[email |-> "n1", role |-> "EMPLOYEE", questions |-> 3],
     [email |-> "u1", role |-> "EMPLOYEE", questions |-> 3],
     [email |-> "n2", role |-> "HR", questions |-> 3],
     [email |-> "n2", role |-> "EMPLOYEE", questions |-> 0]}
\* the rows of a delete job: a user that exists, one that does not
DeleteRows == {[email |-> "u1"], [email |-> "n1"]}
RowLists(S) == UNION {[1..n -> S] : n \in 1..MaxRows}

\* a bulk job, its worker and cancel requests
NextBulk ==
    \/ \E rows \in RowLists(UploadRows) :
          Len(bulk_jobs) < MaxJobs /\ enqueue_bulk_job("upload", rows)
    \/ \E rows \in RowLists(DeleteRows) :
          Len(bulk_jobs) < MaxJobs /\ enqueue_bulk_job("delete", rows)
    \/ \E k \in Slots, j \in 1..MaxJobs : LowestFree(k) /\ worker_begin(k, j)
    \/ \E k \in Slots : worker_mark_processing(k)
    \/ \E k \in Slots : worker_row(k)
    \/ \E k \in Slots : worker_finish(k)
    \/ \E k \in Slots : worker_complete(k)
    \/ \E k \in Slots : worker_crash(k)
    \/ \E j \in 1..MaxJobs : cancel_bulk_job(j)

SpecBulk == Init /\ [][NextBulk]_vars

\* a bulk job whose worker runs each pass of its loop in two steps, the cancel
\* test and the row, with cancel requests in between
NextBulkSteps ==
    \/ \E rows \in RowLists(UploadRows) :
          Len(bulk_jobs) < MaxJobs /\ enqueue_bulk_job("upload", rows)
    \/ \E rows \in RowLists(DeleteRows) :
          Len(bulk_jobs) < MaxJobs /\ enqueue_bulk_job("delete", rows)
    \/ \E k \in Slots, j \in 1..MaxJobs : LowestFree(k) /\ worker_begin(k, j)
    \/ \E k \in Slots : worker_mark_processing(k)
    \/ \E k \in Slots : worker_row_begin(k)
    \/ \E k \in Slots : worker_row_commit(k)
    \/ \E k \in Slots : worker_finish(k)
    \/ \E k \in Slots : worker_complete(k)
    \/ \E k \in Slots : worker_crash(k)
    \/ \E j \in 1..MaxJobs : cancel_bulk_job(j)

SpecBulkSteps == Init /\ [][NextBulkSteps]_vars

\* the names and the field lists of a form payload
FormNames == {"n1", "n2"}
FieldLists == {<<"k_req">>, <<"k_req", "k_opt">>, <<"k_req", "k_req">>}

\* forms created and edited by HR
NextForms ==
    \/ \E name \in FormNames, ks \in FieldLists :
          Cardinality(DOMAIN forms) < MaxForms /\ create_form(name, ks)
    \/ \E f \in {"f1", "f2", "f3", "f_missing"}, name \in FormNames, ks \in FieldLists :
          update_form(f, name, ks)

SpecForms == Init /\ [][NextForms]_vars

\* the accounts of the requests below, and the ids they name
AuthCallers == {Hr, "mg1"}
UserIdInputs == {Hr, "mg1", "u_missing"}

\* the requests of one account, each behind its dependency
RequestsBy(user) ==
    \/ \E t \in UserIdInputs : delete_user(user, t)
    \/ \E t \in UserIdInputs, flag \in BOOLEAN : update_user(user, t, flag)
    \/ \E name \in FormNames :
          /\ Cardinality(DOMAIN forms) < MaxForms - 1
          /\ Request(user, {"HR"}, "create_form", create_form(name, <<"k_req">>))
    \/ \E c \in 1..MaxCycles, n \in Users :
          /\ Len(nominations) < MaxNomsFew
          /\ Request(user, {"MANAGER", "HR"}, "submit_nomination",
                     submit_nomination(user, c, "f1", n, RequiredKeys))

\* accounts deactivated and reactivated between their logins and requests
NextAuth ==
    \/ NewOpenCycle
    \/ \E u \in AuthCallers : RequestsBy(u)
    \/ \E u \in UserIdInputs, pw \in BOOLEAN : login(u, pw)

SpecAuth == Init /\ [][NextAuth]_vars

\* patches of the end date and of the status, with and without drop_cycle
FramePatches == [ed : {0, 1}, st : {None, "OPEN", "CLOSED"}, dc : BOOLEAN]

\* two cycles with a nomination each, a review and an award, patched before
\* the end date and, once the end date is patched to today, no longer before it
NextDropFrame ==
    \/ Len(cycles) < MaxCyclePair /\ create_cycle(1, MaxDay, "OPEN", None)
    \/ \E c \in 1..MaxCyclePair :
          Len(nominations) < MaxNoms /\ submit_nomination("mg1", c, "f1", "u1", RequiredKeys)
    \/ \E n \in 1..MaxNoms :
          Len(assignments) < MaxPanelRows /\ assign_panels_to_nomination(n, <<"P1">>)
    \/ Len(reviews) < MaxPanelRows /\ submit_panel_review(1, "t1", "r1", 1, None)
    \/ \E c \in 1..MaxCyclePair, n \in 1..MaxNoms :
          Len(awards) < MaxPanelRows /\ create_award(c, n, "u1")
    \/ \E c \in CycleIds, p \in FramePatches : update_cycle(c, 0, p.ed, p.st, p.dc, None)

SpecDropFrame == Init /\ [][NextDropFrame]_vars

\* nominations of two cycles with an assignment, a review and an award, removed
\* one by one, by cycle, and by the drop of an early close
NextIntegrity ==
    \/ Len(cycles) < MaxCyclePair /\ create_cycle(1, MaxDay, "OPEN", None)
    \/ \E c \in 1..MaxCyclePair :
          Len(nominations) < MaxNoms /\ submit_nomination("mg1", c, "f1", "u1", RequiredKeys)
    \/ \E n \in 1..MaxNoms :
          Len(assignments) < MaxPanelRows /\ assign_panels_to_nomination(n, <<"P1">>)
    \/ Len(reviews) < MaxPanelRows /\ submit_panel_review(1, "t1", "r1", 1, None)
    \/ \E c \in 1..MaxCyclePair, n \in 1..MaxNoms :
          Len(awards) < MaxPanelRows /\ create_award(c, n, "u1")
    \/ \E c \in CycleIds, dc \in BOOLEAN : update_cycle(c, 0, 0, "CLOSED", dc, None)
    \/ \E n \in 1..MaxNoms : delete_nomination(n)
    \/ \E c \in 1..MaxCyclePair : delete_all_nominations_for_cycle(c)

SpecIntegrity == Init /\ [][NextIntegrity]_vars

\* reviews of one assignment while HR removes members and tasks of the panels
NextRoster ==
    \/ NewOpenCycle
    \/ OneValidSubmit
    \/ AssignOnePanel
    \/ \E a \in 1..MaxPanelRows, t \in Tasks, u \in PanelUsers :
          /\ ReviewInserts(a, t, u) => Len(reviews) < MaxReviews
          /\ submit_panel_review(a, t, u, 1, None)
    \/ \E p \in Panels, m \in Members : remove_panel_member(p, m)
    \/ \E p \in Panels, t \in Tasks : delete_panel_task(p, t)
    \/ \E n \in 1..MaxNomsFew : delete_nomination(n)

SpecRoster == Init /\ [][NextRoster]_vars

\* the reviews that complete the assignments of one nomination, submitted by
\* requests that overlap
NextPromoteRace ==
    \/ NewOpenCycle
    \/ OneValidSubmit
    \/ \E n \in 1..MaxNomsFew, ps \in {<<"P1">>, <<"P2">>, <<"P1", "P2">>} :
          /\ Len(assignments) + Len(ps) <= MaxAssign
          /\ assign_panels_to_nomination(n, ps)
    \/ \E k \in Slots, a \in 1..MaxAssign, t \in Tasks, u \in PanelUsers :
          /\ LowestFree(k)
          /\ ReviewInserts(a, t, u) => Len(reviews) + Cardinality(session) < MaxMemberReviews
          /\ submit_panel_review_begin(k, a, t, u, 1, None)
    \/ \E k \in Slots : submit_panel_review_commit(k)

SpecPromoteRace == Init /\ [][NextPromoteRace]_vars

\* the accounts that read nominations
Callers == {Hr} \cup Managers \cup PanelUsers

\* nominations of two managers, reviewed by one panel member, read by every role
NextVisibility ==
    \/ NewOpenCycle
    \/ \E m \in Managers, c \in 1..MaxCycles, u \in Users :
          Len(nominations) < MaxNoms /\ submit_nomination(m, c, "f1", u, RequiredKeys)
    \/ AssignOnePanel
    \/ SubmitOneReview
    \/ \E user \in Callers, c \in 1..MaxCycles : list_nominations(user, c)
    \/ \E user \in Managers \cup {Hr}, c \in 1..MaxCycles : nomination_history(user, c)
    \/ \E user \in Callers, n \in 1..MaxNoms : get_nomination(user, n)

SpecVisibility == Init /\ [][NextVisibility]_vars

\* the payloads of update_award: each field given or left out
AwardPatches ==
    [award_type : {None, "silver"}, rank : {0, 2}, comment : {None, "well done"}]

\* awards edited before and after the winners are announced
NextAwardEdit ==
    \/ NewOpenCycle
    \/ SetCycleStatusOnly
    \/ OneValidSubmit
    \/ \E c \in 1..MaxCycles, n \in 1..MaxNomsFew, u \in Users :
          Len(awards) < MaxAwards /\ create_award(c, n, u)
    \/ \E c \in 1..MaxCycles : finalize_awards(c)
    \/ \E a \in 1..MaxAwards, p \in AwardPatches :
          update_award(a, p.award_type, p.rank, p.comment)

SpecAwardEdit == Init /\ [][NextAwardEdit]_vars

\* deletion of nominations that have assignments, reviews and awards
NextDelete ==
    \/ NewOpenCycle
    \/ ValidSubmit
    \/ AssignOnePanel
    \/ SubmitOneReview
    \/ \E c \in 1..MaxCycles, n \in 1..MaxNoms, u \in Users :
          Len(awards) < MaxAwards /\ create_award(c, n, u)
    \/ \E n \in 1..MaxNoms : delete_nomination(n)
    \/ \E c \in 1..MaxCycles : delete_all_nominations_for_cycle(c)

SpecDelete == Init /\ [][NextDelete]_vars

\* a patch that moves the status to CLOSED or FINALIZED
ForwardPatches == {p \in PlainStatusPatches : p.st \in {"CLOSED", "FINALIZED"}}

\* the sweep at the startup of one process while another serves requests, on a
\* cycle of one day
NextSweepRace ==
    \/ \E st \in CycleStatus : Len(cycles) < MaxCycles /\ create_cycle(1, 1, st, None)
    \/ OneValidSubmit
    \/ \E c \in 1..MaxCycles, n \in 1..MaxNomsFew, u \in Users :
          Len(awards) < MaxAwards /\ create_award(c, n, u)
    \/ Tick
    \/ \E c \in CycleIds, p \in ForwardPatches : update_cycle(c, 0, 0, p.st, p.dc, p.at)
    \/ \E c \in 1..MaxCycles : finalize_awards(c)
    \/ \E k \in Slots : LowestFree(k) /\ auto_close_begin(k)
    \/ \E k \in Slots : auto_close_commit(k)

SpecSweepRace == Init /\ [][NextSweepRace]_vars

\* awards created by requests that overlap
NextAwardRace ==
    \/ NewOpenCycle
    \/ ValidSubmit
    \/ \E k \in Slots, c \in 1..MaxCycles, n \in 1..MaxNoms, u \in UserInputs :
          /\ LowestFree(k)
          /\ Len(awards) + Cardinality(session) < MaxAwards
          /\ create_award_begin(k, c, n, u)
    \/ \E k \in Slots : create_award_commit(k)

SpecAwardRace == Init /\ [][NextAwardRace]_vars

\* update_cycle in steps on a cycle with nominations, reviews and awards, read
\* by list_nominations while it runs; the requests that write run before it
\* begins or after it ends
NextDrop ==
    \/ NewOpenCycle
    \/ OneValidSubmit
    \/ AssignOnePanel
    \/ SubmitOneReview
    \/ \E c \in 1..MaxCycles, n \in 1..MaxNomsFew, u \in Users :
          Len(awards) < MaxAwards /\ create_award(c, n, u)
    \/ \E k \in Slots, c \in CycleIds, p \in ClosePatches :
          /\ LowestFree(k)
          /\ update_cycle_begin(k, c, 0, 0, p.st, p.dc, p.at)
    \/ \E k \in Slots : update_cycle_finish(k)
    \/ \E c \in CycleIds : list_nominations(Hr, c)

SpecDrop == Init /\ [][NextDrop]_vars

\* ----------------------------------------------------------------- claims

\* C1: in every state reached by submit_nomination, update_nomination_status,
\* assign_panels_to_nomination, submit_panel_review and the deletions, a (cycle,
\* nominee) pair has at most one nomination that is SUBMITTED, PANEL_REVIEW or
\* HR_REVIEW.
C1_OneOpenNominationPerPair ==
    \A i \in NomIds, j \in NomIds :
        (/\ nominations[i].cycle_id = nominations[j].cycle_id
         /\ nominations[i].nominee_id = nominations[j].nominee_id
         /\ nominations[i].status \in NonTerminal
         /\ nominations[j].status \in NonTerminal) => i = j

\* C2: across update_cycle, finalize_awards and the sweeps a cycle's status never
\* moves backward in the order DRAFT, OPEN, CLOSED, FINALIZED.
C2_StatusNeverMovesBackward ==
    [][\A c \in DOMAIN cycles :
          StatusRank(cycles'[c].status) >= StatusRank(cycles[c].status)]_vars

\* the rows of a cycle in the six tables
CycleHasRows(c) ==
    LET ids == NomsOfCycle(nominations, c)
        asg == AssignsOfNoms(assignments, ids)
    IN  \/ ids # {}
        \/ asg # {}
        \/ \E r \in ReviewIds : reviews[r].panel_assignment_id \in asg
        \/ \E a \in answers : a[1] \in ids
        \/ \E a \in AwardIds : awards[a].cycle_id = c

C4_AtMostOneActiveAward ==
    \A a \in AwardIds, b \in AwardIds :
        (/\ awards[a].nomination_id = awards[b].nomination_id
         /\ awards[a].is_active
         /\ awards[b].is_active) => a = b

\* every award's winner is the nominee of its nomination
WinnerMatches ==
    \A a \in AwardIds :
        /\ awards[a].nomination_id \in NomIds
        /\ awards[a].winner_id = nominations[awards[a].nomination_id].nominee_id

\* C5: every award's winner_id equals the nominee_id of the nomination it
\* references, and create_award with another winner_id fails and creates no row.
C5_WinnerIsTheNominee ==
    /\ []WinnerMatches
    /\ [][\A c \in 1..MaxCycles, n \in NomIds, u \in UserInputs :
             (create_award(c, n, u) /\ u # nominations[n].nominee_id) =>
                 /\ resp'.code \in {400, 404}
                 /\ awards' = awards]_vars

\* a create_award refused for its winner while the nominee holds no award yet
C5_Witness ==
    /\ resp.op = "create_award"
    /\ resp.err = "Winner must be the nominee"
    /\ NomIds # {}
    /\ AwardIds = {}

\* C6: after any sequence of create_cycle and update_cycle calls every stored
\* cycle satisfies end_date >= start_date.
C6_EndNotBeforeStart ==
    \A c \in CycleIds : cycles[c].end_date >= cycles[c].start_date

\* C7: after any sequence of assign_panels_to_nomination calls there is at most
\* one PanelAssignment row per (nomination, panel) pair.
C7_OneAssignmentPerPair ==
    \A i \in AssignIds, j \in AssignIds :
        (/\ assignments[i].nomination_id = assignments[j].nomination_id
         /\ assignments[i].panel_id = assignments[j].panel_id) => i = j

\* at most one review row per (assignment, member, task)
OneReviewPerTriple ==
    \A i \in ReviewIds, j \in ReviewIds :
        (/\ reviews[i].panel_assignment_id = reviews[j].panel_assignment_id
         /\ reviews[i].panel_member_id = reviews[j].panel_member_id
         /\ reviews[i].panel_task_id = reviews[j].panel_task_id) => i = j

WindowOpen(c) ==
    /\ c \in CycleIds
    /\ cycles[c].status = "OPEN"
    /\ cycles[c].start_date <= today
    /\ today <= cycles[c].end_date

\* C9: submit_nomination creates a nomination only when the cycle is OPEN and
\* start_date <= today <= end_date; otherwise it fails and creates no Nomination
\* and no FormAnswer row.
C9_SubmitOnlyInOpenWindow ==
    [][\A c \in 1..MaxCycles, f \in FormInputs, u \in UserInputs, ks \in SUBSET FieldKeys :
          submit_nomination("mg1", c, f, u, ks) =>
             /\ ~WindowOpen(c) =>
                   /\ resp'.code \in {400, 404}
                   /\ nominations' = nominations
                   /\ answers' = answers
             /\ nominations' # nominations =>
                   /\ WindowOpen(c)
                   /\ nominations'[Len(nominations')].cycle_id = c]_vars

\* a submission refused because today is past the end of an OPEN cycle
C9_Witness ==
    /\ resp.op = "submit_nomination"
    /\ resp.err = "The nomination window for this cycle has already closed."
    /\ \E c \in CycleIds : cycles[c].status = "OPEN" /\ today > cycles[c].end_date
    /\ nominations = <<>>

\* C10: of two submit_nomination requests for one (cycle, nominee) pair whose
\* steps interleave at most one commits a nomination: no commit adds a
\* nomination to a pair that has one under way.
C10_AtMostOneCommits ==
    [][\A s \in session \ session' :
          (s.op = "submit_nomination" /\ Len(nominations') > Len(nominations)) =>
              ~ExistingNomination(s.cycle_id, s.nominee_id)]_vars


\* every assignment of a nomination is COMPLETED
AllAssignmentsCompleted(n) ==
    \A i \in AssignsOfNoms(assignments, {n}) : assignments[i].status = "COMPLETED"

\* C11: after a submit_panel_review that leaves every PanelAssignment of the
\* nomination COMPLETED the nomination is HR_REVIEW; one that leaves an
\* assignment PENDING does not change the nomination's status.
C11_PromotionFollowsCompletion ==
    [][\A a \in AssignIds, t \in Tasks, u \in PanelUsers :
          (submit_panel_review(a, t, u, 1, None) /\ resp'.code = 201) =>
              LET n == assignments[a].nomination_id
              IN  IF AllAssignmentsCompleted(n)'
                  THEN nominations'[n].status = "HR_REVIEW"
                  ELSE nominations'[n].status = nominations[n].status]_vars

\* the tasks a member has reviewed on an assignment
TasksReviewedBy(a, m) ==
    {reviews[i].panel_task_id :
        i \in {j \in ReviewIds : /\ reviews[j].panel_assignment_id = a
                                 /\ reviews[j].panel_member_id = m}}
MembersOf(panel_id) == {m \in Members : MemberPanel(m) = panel_id}

\* C12 as stated: an assignment is COMPLETED only when every member of its
\* panel has reviewed every required task of the panel.
C12_CompletedByEveryMember ==
    \A a \in AssignIds :
        assignments[a].status = "COMPLETED" =>
            \A m \in MembersOf(assignments[a].panel_id) :
                RequiredTaskIds(assignments[a].panel_id) \subseteq TasksReviewedBy(a, m)

\* C12: an assignment is COMPLETED only when some member of its panel has
\* reviewed every required task of the panel; while no member has, it is PENDING.
C12_CompletedBySomeMember ==
    \A a \in AssignIds :
        /\ assignments[a].status \in {"PENDING", "COMPLETED"}
        /\ assignments[a].status = "COMPLETED" =>
              \E m \in MembersOf(assignments[a].panel_id) :
                  /\ TasksReviewedBy(a, m) # {}
                  /\ RequiredTaskIds(assignments[a].panel_id) \subseteq TasksReviewedBy(a, m)

\* an assignment of the two-member panel completed by one member alone
C12_Witness ==
    \E a \in AssignIds :
        /\ assignments[a].status = "COMPLETED"
        /\ assignments[a].panel_id = "P1"
        /\ TasksReviewedBy(a, "m1") = {"t1", "t2"}
        /\ TasksReviewedBy(a, "m2") = {}

\* C13: a successful submit_panel_review by member M on a PENDING assignment A
\* sets A to COMPLETED exactly when, after the upsert, M's own reviews of A cover
\* every required task of A's panel; otherwise A stays PENDING.
C13_CompletionPerMember ==
    [][\A a \in AssignIds, t \in Tasks, u \in PanelUsers, r \in ReviewPayloads :
          (/\ assignments[a].status = "PENDING"
           /\ submit_panel_review(a, t, u, r.score, r.comment)
           /\ resp'.code = 201) =>
              LET m == PanelMemberOf(assignments[a].panel_id, u)
              IN  /\ assignments'[a].status \in {"PENDING", "COMPLETED"}
                  /\ assignments'[a].status = "COMPLETED" <=>
                        RequiredTaskIds(assignments[a].panel_id) \subseteq TasksReviewedBy(a, m)']_vars

\* the two required tasks of a panel reviewed by two different members: the
\* assignment is still PENDING
C13_Witness ==
    /\ resp.op = "submit_panel_review"
    /\ resp.code = 201
    /\ \E a \in AssignIds :
          /\ assignments[a].status = "PENDING"
          /\ assignments[a].panel_id = "P1"
          /\ TasksReviewedBy(a, "m1") = {"t1"}
          /\ TasksReviewedBy(a, "m2") = {"t2"}


\* C14: finalize_awards succeeds exactly when the cycle is not FINALIZED and has
\* an active award; on success the cycle is FINALIZED and every active award of
\* the cycle is stamped, in one step; on failure the cycle and the awards are
\* unchanged.
C14_FinalizeAwards ==
    [][\A c \in 1..MaxCycles :
          finalize_awards(c) =>
              LET act == {a \in AwardIds : awards[a].cycle_id = c /\ awards[a].is_active}
                  ok == c \in CycleIds /\ cycles[c].status # "FINALIZED" /\ act # {}
              IN  /\ resp'.code = 200 <=> ok
                  /\ ok => /\ cycles'[c].status = "FINALIZED"
                           /\ DOMAIN awards' = DOMAIN awards
                           /\ \A a \in DOMAIN awards :
                                 awards'[a] = IF a \in act
                                              THEN [awards[a] EXCEPT !.finalized = TRUE]
                                              ELSE awards[a]
                  /\ ~ok => /\ resp'.code \in {400, 404}
                            /\ cycles' = cycles
                            /\ awards' = awards]_vars

\* a finalization that stamped the award of a cycle and finalized the cycle
C14_Witness ==
    /\ resp.op = "finalize_awards"
    /\ resp.code = 200
    /\ \E a \in AwardIds : /\ awards[a].finalized
                           /\ cycles[awards[a].cycle_id].status = "FINALIZED"

\* C15: update_nomination_status to FINALIZED succeeds only when the cycle is
\* CLOSED or FINALIZED and the nomination is in HR_REVIEW; otherwise it fails and
\* the status is unchanged. No nomination becomes FINALIZED from another status
\* than HR_REVIEW.
C15_FinalizeOnlyFromHrReview ==
    [][\A n \in 1..MaxNoms :
          /\ update_nomination_status(n, "FINALIZED") =>
                LET ok == /\ n \in NomIds
                          /\ nominations[n].status = "HR_REVIEW"
                          /\ cycles[nominations[n].cycle_id].status \in {"CLOSED", "FINALIZED"}
                IN  /\ resp'.code = 200 => ok
                    /\ ~ok => resp'.code \in {400, 404} /\ nominations' = nominations
          /\ (/\ n \in NomIds
              /\ n \in DOMAIN nominations'
              /\ nominations'[n].status = "FINALIZED"
              /\ nominations[n].status # "FINALIZED") =>
                 nominations[n].status = "HR_REVIEW"]_vars

\* a finalization refused in a CLOSED cycle because the nomination had not
\* reached HR_REVIEW
C15_Witness ==
    /\ resp.op = "update_nomination_status"
    /\ resp.err = "Can only finalize nominations that are in HR_REVIEW status"
    /\ \E n \in NomIds : /\ nominations[n].status = "PANEL_REVIEW"
                         /\ cycles[nominations[n].cycle_id].status = "CLOSED"

\* some nomination of the set is referenced by an active award
ReferencedByActiveAward(ids) ==
    \E a \in DOMAIN awards : /\ awards[a] # DeletedAward
                             /\ awards[a].is_active
                             /\ awards[a].nomination_id \in ids

\* C16: delete_nomination and delete_all_nominations_for_cycle fail when a
\* targeted nomination is referenced by an active award, and then remove no
\* Nomination, FormAnswer, PanelAssignment or PanelReview row.
C16_DeleteRefusedWithAward ==
    [][/\ \A n \in NomIds :
             (delete_nomination(n) /\ ReferencedByActiveAward({n})) =>
                 resp'.code = 400 /\ tables' = tables
       /\ \A c \in CycleIds :
             (/\ delete_all_nominations_for_cycle(c)
              /\ ReferencedByActiveAward(NomsOfCycle(nominations, c))) =>
                 resp'.code = 400 /\ tables' = tables]_vars

\* a bulk deletion refused: of the two nominations of the cycle one has an
\* award, the other has a panel assignment, and both are still stored
C16_Witness ==
    /\ resp.op = "delete_all_nominations"
    /\ resp.code = 400
    /\ Cardinality(NomIds) = 2
    /\ \E n \in NomIds : ~ReferencedByActiveAward({n}) /\ AssignsOfNoms(assignments, {n}) # {}
    /\ \E n \in NomIds : ReferencedByActiveAward({n})

\* C20: create_award succeeds only when the cycle is OPEN or CLOSED; for a cycle
\* in DRAFT or FINALIZED it fails and creates no Award.
C20_AwardingWindow ==
    [][\A c \in CycleIds, n \in 1..MaxNoms, u \in UserInputs :
          create_award(c, n, u) =>
              /\ resp'.code = 201 => cycles[c].status \in {"OPEN", "CLOSED"}
              /\ cycles[c].status \in {"DRAFT", "FINALIZED"} =>
                    resp'.code = 400 /\ awards' = awards]_vars

\* an award refused in a DRAFT cycle for a nomination and its nominee
C20_Witness ==
    /\ resp.op = "create_award"
    /\ resp.err = "Awards cannot be created in this cycle status"
    /\ \E n \in NomIds : cycles[nominations[n].cycle_id].status = "DRAFT"
    /\ AwardIds = {}


\* C17: interleaved with update_cycle and finalize_awards the sweep only moves a
\* cycle forward, from OPEN to CLOSED: it never sets a FINALIZED cycle back to
\* CLOSED and never transitions a cycle twice.
C17_SweepOnlyClosesOpen ==
    [][\A s \in session \ session' :
          s.op = "auto_close" =>
              \A c \in CycleIds :
                  \/ cycles'[c] = cycles[c]
                  \/ cycles[c].status = "OPEN" /\ cycles'[c].status = "CLOSED"]_vars

\* C18: the sweeps are idempotent and touch nothing else: a second run of
\* auto_close_expired_cycles on the same day changes no cycle, neither sweep
\* changes a cycle that is DRAFT, CLOSED or FINALIZED, and no other table changes.
C18_SweepsIdempotent ==
    [][/\ auto_close_expired_cycles =>
             /\ CloseCycles(cycles', ExpiredCycles') = cycles'
             /\ \A c \in CycleIds :
                   cycles[c].status \in {"DRAFT", "CLOSED", "FINALIZED"} =>
                       cycles'[c] = cycles[c]
             /\ UNCHANGED <<nominations, answers, assignments, reviews, awards>>
       /\ auto_open_active_cycles => tables' = tables]_vars

\* the sweep has closed an OPEN cycle past its end date
C18_Witness ==
    /\ resp.op = "auto_close"
    /\ resp.data # {}
    /\ \A c \in resp.data : cycles[c].status = "CLOSED" /\ cycles[c].end_date < today

\* C19: after the sweep runs, an ACTIVE cycle whose start_date has arrived is
\* OPEN and an OPEN cycle whose end_date has passed is CLOSED.
C19_SweepOpensAndCloses ==
    [][/\ auto_open_active_cycles =>
             /\ resp'.code = 200
             /\ \A c \in CycleIds :
                   ~(cycles'[c].status = "ACTIVE" /\ cycles'[c].start_date <= today)
       /\ auto_close_expired_cycles =>
             \A c \in CycleIds :
                 ~(cycles'[c].status = "OPEN" /\ cycles'[c].end_date < today)]_vars


\* C21: update_award succeeds only when the award is active and its cycle is
\* FINALIZED, and then changes nothing but the award_type, rank and comment of
\* that award; when it fails, no table changes.
C21_UpdateAward ==
    [][\A a \in 1..MaxAwards, p \in AwardPatches :
          update_award(a, p.award_type, p.rank, p.comment) =>
              IF resp'.code = 200
              THEN /\ a \in AwardIds
                   /\ awards[a].is_active
                   /\ cycles[awards[a].cycle_id].status = "FINALIZED"
                   /\ [awards'[a] EXCEPT !.award_type = None, !.rank = 0, !.comment = None]
                        = [awards[a] EXCEPT !.award_type = None, !.rank = 0, !.comment = None]
                   /\ \A b \in DOMAIN awards : b # a => awards'[b] = awards[b]
                   /\ DOMAIN awards' = DOMAIN awards
                   /\ UNCHANGED <<cycles, nominations, answers, assignments, reviews>>
              ELSE tables' = tables]_vars

\* an award of a finalized cycle has been given a rank
C21_Witness ==
    /\ resp.op = "update_award" /\ resp.code = 200
    /\ \E a \in AwardIds :
          /\ awards[a].rank = 2
          /\ awards[a].finalized
          /\ cycles[awards[a].cycle_id].status = "FINALIZED"

\* C22: an Award is created only for a nomination whose status is FINALIZED:
\* create_award for a nomination in SUBMITTED, PANEL_REVIEW or HR_REVIEW fails
\* and creates no Award.
C22_AwardOnlyForFinalized ==
    [][\A c \in 1..MaxCycles, n \in 1..MaxNoms, u \in UserInputs :
          (create_award(c, n, u) /\ Len(awards') > Len(awards)) =>
              nominations[n].status = "FINALIZED"]_vars


\* C23: every nomination that list_nominations, nomination_history or
\* get_nomination returns to a caller whose role is MANAGER was nominated by
\* that caller.
C23_ManagerSeesOwnNominations ==
    [][\A user \in Managers, c \in 1..MaxCycles, n \in 1..MaxNoms :
          (\/ list_nominations(user, c)
           \/ nomination_history(user, c)
           \/ get_nomination(user, n)) =>
              \A x \in resp'.data : nominations[x].nominated_by_id = user]_vars

\* C24: every nomination that list_nominations returns to a caller whose role
\* is PANEL has an assignment on which that caller, as a panel member, has
\* submitted a review.
C24_PanelSeesReviewedNominations ==
    [][\A user \in PanelUsers, c \in 1..MaxCycles :
          list_nominations(user, c) =>
              \A x \in resp'.data :
                  \E i \in ReviewIds :
                      /\ reviews[i].panel_assignment_id \in AssignIds
                      /\ assignments[reviews[i].panel_assignment_id].nomination_id = x
                      /\ MemberUser(reviews[i].panel_member_id) = user]_vars


\* C25: a terminal status of a bulk job is persistent under every interleaving
\* of cancel_bulk_job with the worker: once completed, failed or cancelled, the
\* status never changes again.
C25_TerminalStatusPersists ==
    [][\A j \in DOMAIN bulk_jobs :
          bulk_jobs[j].status \in {"completed", "failed", "cancelled"} =>
              bulk_jobs'[j].status = bulk_jobs[j].status]_vars

\* a worker has handled one more row of its job
RowHandled(j) ==
    \E s \in session, t \in session' :
        /\ s.op = "process_bulk_job" /\ t.op = "process_bulk_job"
        /\ s.slot = t.slot /\ s.job = j /\ t.job = j
        /\ t.idx = s.idx + 1

\* C26: the processed counter of a job never decreases, rises by exactly one
\* per row handled, never exceeds the number of rows of the payload, and in
\* every committed state equals success_count + failure_count.
C26_ProcessedCounter ==
    [][\A j \in DOMAIN bulk_jobs :
          LET a == bulk_jobs[j]
              b == bulk_jobs'[j]
          IN  /\ b.processed = IF RowHandled(j) THEN a.processed + 1 ELSE a.processed
              /\ b.processed <= Len(b.rows)
              /\ b.processed = b.success_count + b.failure_count]_vars

\* both rows of a job are counted, one as a success and one as a failure
C26_Witness ==
    \E j \in DOMAIN bulk_jobs :
        /\ bulk_jobs[j].processed = 2
        /\ bulk_jobs[j].success_count = 1
        /\ bulk_jobs[j].failure_count = 1

C28_ActiveFormNamesUnique ==
    \A f, g \in DOMAIN forms :
        (f # g /\ forms[f].is_active /\ forms[g].is_active) => forms[f].name # forms[g].name


\* C29 as stated: while a user's is_active flag is false, every login attempt
\* and every token-authenticated request of that user is rejected with 403 and
\* changes no state.
C29_InactiveAlways403 ==
    [][\A u \in DOMAIN users :
          ~users[u].is_active =>
              /\ \A pw \in BOOLEAN :
                    login(u, pw) => resp'.code = 403 /\ UNCHANGED <<tables, directory>>
              /\ RequestsBy(u) => resp'.code = 403 /\ UNCHANGED <<tables, directory>>]_vars

\* C29: while a user's is_active flag is false, every token-authenticated
\* request of that user and every login with the right password is rejected
\* with 403, a login with a wrong password with 401, and none changes any
\* state, until the flag is set to true again.
C29_InactiveUserRejected ==
    [][\A u \in DOMAIN users :
          ~users[u].is_active =>
              /\ \A pw \in BOOLEAN :
                    login(u, pw) =>
                        /\ resp'.code = IF pw THEN 403 ELSE 401
                        /\ UNCHANGED <<tables, directory>>
              /\ RequestsBy(u) => resp'.code = 403 /\ UNCHANGED <<tables, directory>>]_vars

\* a deactivated manager's nomination was refused while the cycle is open
C29_Witness ==
    /\ resp.op = "submit_nomination"
    /\ resp.code = 403
    /\ resp.err = "User account is inactive"
    /\ ~users["mg1"].is_active
    /\ \E c \in CycleIds : cycles[c].status = "OPEN"


\* the rows of the cycles other than c are as they were
OtherCyclesKept(c) ==
    LET others == {i \in DOMAIN nominations : nominations[i].cycle_id # c}
        asg == {a \in DOMAIN assignments : assignments[a].nomination_id \in others}
    IN  /\ \A i \in others : nominations'[i] = nominations[i]
        /\ \A x \in answers : x[1] \in others => x \in answers'
        /\ \A a \in asg : assignments'[a] = assignments[a]
        /\ \A r \in DOMAIN reviews :
              reviews[r].panel_assignment_id \in asg => reviews'[r] = reviews[r]
        /\ \A w \in DOMAIN awards : awards[w].cycle_id # c => awards'[w] = awards[w]

\* C30: update_cycle deletes data only when the patch sets status CLOSED, the
\* cycle is not already CLOSED, today < end_date and drop_cycle is true; in
\* every other case it leaves every Nomination, FormAnswer, PanelAssignment,
\* PanelReview and Award unchanged, and in all cases the rows of other cycles
\* are unchanged.
C30_DropOnlyWhenAsked ==
    [][\A c \in CycleIds, p \in FramePatches :
          update_cycle(c, 0, p.ed, p.st, p.dc, None) =>
              LET end_date == IF Given(p.ed) THEN p.ed ELSE cycles[c].end_date
                  asked == /\ p.st = "CLOSED"
                           /\ cycles[c].status # "CLOSED"
                           /\ today < end_date
                           /\ p.dc
              IN  /\ ~asked => UNCHANGED <<nominations, answers, assignments, reviews, awards>>
                  /\ OtherCyclesKept(c)]_vars

\* a drop has cleared one cycle while the other keeps its nomination and award
C30_Witness ==
    /\ resp.op = "update_cycle_drop" /\ resp.code = 200
    /\ \E c \in CycleIds :
          /\ cycles[c].status = "CLOSED"
          /\ ~CycleHasRows(c)
          /\ \E n \in DOMAIN nominations : nominations[n] = DeletedNom
    /\ \E d \in CycleIds :
          /\ NomsOfCycle(nominations, d) # {}
          /\ \E a \in AwardIds : awards[a].cycle_id = d

\* C31: an assign_panels_to_nomination that fails changes nothing: when every
\* listed panel is already assigned, or a listed panel id does not exist (after
\* valid new ids earlier in the list too), no PanelAssignment is created and no
\* nomination changes. One that succeeds leaves the nomination in PANEL_REVIEW
\* and adds only PENDING assignments of that nomination.
C31_FailedAssignChangesNothing ==
    [][\A n \in 1..MaxNoms, ps \in PanelIdLists :
          assign_panels_to_nomination(n, ps) =>
             /\ (\/ \A k \in DOMAIN ps : ps[k] \in ExistingPanelIds(n)
                 \/ \E k \in DOMAIN ps : ps[k] \notin Panels) =>
                   /\ resp'.code \in {400, 404}
                   /\ assignments' = assignments
                   /\ nominations' = nominations
             /\ resp'.code # 201 => tables' = tables
             /\ resp'.code = 201 =>
                   /\ nominations'[n].status = "PANEL_REVIEW"
                   /\ Len(assignments') > Len(assignments)
                   /\ \A i \in DOMAIN assignments' :
                         IF i \in DOMAIN assignments
                         THEN assignments'[i] = assignments[i]
                         ELSE /\ assignments'[i].status = "PENDING"
                              /\ assignments'[i].nomination_id = n]_vars

\* a request refused for a panel id that does not exist, sent for a nomination
\* that has one panel assigned and could have taken the other: the nomination
\* still has the one assignment
C31_Witness ==
    /\ resp.op = "assign_panels"
    /\ resp.err = "Invalid panel"
    /\ \E n \in NomIds :
          /\ ExistingPanelIds(n) = {"P1"}
          /\ Cardinality(AssignsOfNoms(assignments, {n})) = 1
          /\ nominations[n].status = "PANEL_REVIEW"

\* the field keys answered for a nomination
AnsweredKeys(ans, n) == {a[2] : a \in {b \in ans : b[1] = n}}

\* C32: submit_nomination creates a nomination only when every required
\* field_key of the form has an answer in the payload; with a required key
\* missing it fails and stores neither a Nomination nor a FormAnswer. On success
\* the SUBMITTED Nomination and one FormAnswer per supplied answer reach the
\* store in one step: no state holds a nomination without its answers.
C32_NominationWithItsAnswers ==
    /\ [](\A n \in NomIds : RequiredKeys \subseteq AnsweredKeys(answers, n))
    /\ [][/\ \A k \in Slots, c \in 1..MaxCycles, f \in FormInputs, u \in UserInputs,
               ks \in SUBSET FieldKeys :
                (submit_nomination_begin(k, "mg1", c, f, u, ks)
                    /\ ~(RequiredKeys \subseteq ks)) =>
                   /\ resp'.code \in {400, 404}
                   /\ session' = session
                   /\ nominations' = nominations
                   /\ answers' = answers
          /\ \A s \in session \ session' :
                s.op = "submit_nomination" =>
                   /\ RequiredKeys \subseteq s.answer_keys
                   /\ Len(nominations') = Len(nominations) + 1
                   /\ nominations'[Len(nominations')].status = "SUBMITTED"
                   /\ answers' \ answers =
                         {<<Len(nominations'), key>> : key \in s.answer_keys}
                   /\ Cardinality(answers' \ answers) = Cardinality(s.answer_keys)
          /\ answers' # answers => Len(nominations') = Len(nominations) + 1]_vars

\* a submission without the required key refused after another nominee's
\* nomination was stored with both of its answers: the store holds that
\* nomination and its two answers, and nothing of the refused one
C32_Witness ==
    /\ resp.op = "submit_nomination"
    /\ resp.err = "Missing required fields"
    /\ Len(nominations) = 1
    /\ nominations[1].status = "SUBMITTED"
    /\ answers = {<<1, "k_req">>, <<1, "k_opt">>}
    /\ session = {}

\* every row that references a nomination or an assignment references one that
\* is stored
ReferencesResolve ==
    /\ \A a \in AwardIds : awards[a].nomination_id \in NomIds
    /\ \A a \in answers : a[1] \in NomIds
    /\ \A i \in AssignIds : assignments[i].nomination_id \in NomIds
    /\ \A r \in ReviewIds : reviews[r].panel_assignment_id \in AssignIds

\* C33: in every state reached through delete_nomination,
\* delete_all_nominations_for_cycle and the drop of update_cycle every Award,
\* FormAnswer and PanelAssignment references a stored Nomination and every
\* PanelReview a stored PanelAssignment; a nomination is destroyed only when no
\* Award references it or the Award is destroyed in the same commit.
C33_ReferentialIntegrity ==
    /\ []ReferencesResolve
    /\ [][\A n \in NomIds :
             n \notin NomIds' =>
                \A a \in AwardIds :
                    awards[a].nomination_id = n => awards'[a] = DeletedAward]_vars

\* a drop destroyed the nomination of one cycle together with its award, while
\* the nomination of the other cycle is stored with its answer and assignment
C33_Witness ==
    /\ resp.op = "update_cycle_drop"
    /\ resp.code = 200
    /\ Len(awards) = 1
    /\ awards[1] = DeletedAward
    /\ \E n \in DOMAIN nominations : nominations[n] = DeletedNom
    /\ \E n \in NomIds : /\ AssignsOfNoms(assignments, {n}) # {}
                         /\ <<n, "k_req">> \in answers

\* every award is stored under the cycle of the nomination it references
AwardCycleMatches ==
    \A a \in AwardIds :
        /\ awards[a].nomination_id \in NomIds
        /\ awards[a].cycle_id = nominations[awards[a].nomination_id].cycle_id

\* C34: in every reachable state every Award's cycle_id equals the cycle_id of
\* the nomination it references; create_award with a nomination of another cycle
\* fails and creates no Award.
C34_AwardInNominationsCycle ==
    /\ []AwardCycleMatches
    /\ [][\A c \in 1..MaxCyclePair, n \in NomIds :
             (create_award(c, n, "u1") /\ nominations[n].cycle_id # c) =>
                 /\ resp'.code \in {400, 404}
                 /\ awards' = awards]_vars

\* a create_award refused because its nomination is of the other of two cycles,
\* with no award stored
C34_Witness ==
    /\ resp.op = "create_award"
    /\ resp.err = "Nomination does not belong to this cycle"
    /\ Len(cycles) = 2
    /\ NomIds # {}
    /\ AwardIds = {}

\* every review was written by a member of its assignment's panel for a task of
\* that panel, and the member and the task are still stored
ReviewsWithinPanel ==
    \A r \in ReviewIds :
        LET a == reviews[r].panel_assignment_id
        IN  /\ a \in AssignIds
            /\ reviews[r].panel_member_id \in panel_members
            /\ MemberPanel(reviews[r].panel_member_id) = assignments[a].panel_id
            /\ reviews[r].panel_task_id \in panel_tasks
            /\ TaskPanel(reviews[r].panel_task_id) = assignments[a].panel_id

\* C35: in every reachable state each PanelReview's member belongs to the panel
\* of the review's assignment and its task belongs to that panel;
\* submit_panel_review by a user who is no member of the panel, or for a task of
\* another panel, fails and writes no review; removing a member or a task never
\* leaves a review of that member or task behind.
C35_ReviewsStayWithinPanel ==
    /\ []ReviewsWithinPanel
    /\ [][\A a \in AssignIds, t \in Tasks, u \in PanelUsers :
             (/\ submit_panel_review(a, t, u, 1, None)
              /\ \/ ~\E m \in panel_members : /\ MemberPanel(m) = assignments[a].panel_id
                                              /\ MemberUser(m) = u
                 \/ t \notin panel_tasks
                 \/ TaskPanel(t) # assignments[a].panel_id) =>
                 /\ resp'.code \in {400, 403}
                 /\ tables' = tables]_vars

\* a review refused for a user whose membership of P1 was removed, while the
\* review of the panel's other member is stored
C35_Witness ==
    /\ resp.op = "submit_panel_review"
    /\ resp.err = "Access denied"
    /\ "m2" \notin panel_members
    /\ "m1" \in panel_members
    /\ \E a \in AssignIds : assignments[a].panel_id = "P1"
    /\ \E r \in ReviewIds : reviews[r].panel_member_id = "m1"

\* C36: FINALIZED is terminal for a nomination: once its status is FINALIZED no
\* later update_nomination_status, assign_panels_to_nomination or
\* submit_panel_review changes it to SUBMITTED, PANEL_REVIEW or HR_REVIEW.
C36_FinalizedIsTerminal ==
    [][\A n \in NomIds :
          (nominations[n].status = "FINALIZED" /\ n \in NomIds') =>
              nominations'[n].status \notin NonTerminal]_vars

\* C37: in every reachable state, if a cycle's status is FINALIZED then every
\* active Award of the cycle has finalized_at set, whatever the sequence of
\* create_award, update_cycle and finalize_awards.
C37_FinalizedCycleAwardsStamped ==
    \A a \in AwardIds :
        (/\ awards[a].is_active
         /\ awards[a].cycle_id \in CycleIds
         /\ cycles[awards[a].cycle_id].status = "FINALIZED") => awards[a].finalized

\* C38: the promotion to HR_REVIEW is not lost when the two submit_panel_review
\* requests that complete the last two PENDING assignments of a nomination
\* overlap: once both have committed and every assignment of the nomination is
\* COMPLETED, the nomination is in HR_REVIEW.
C38_PromotionNotLost ==
    \A n \in NomIds :
        (/\ \A s \in session : s.nomination_id # n
         /\ AssignsOfNoms(assignments, {n}) # {}
         /\ AllAssignmentsCompleted(n)) => nominations[n].status = "HR_REVIEW"

\* C39: when two create_award requests for one nomination overlap, both passing
\* the existing-award check before either commits, at most one active Award of
\* the nomination exists afterwards: no commit adds an award to a nomination
\* that has an active one.
C39_OneAwardAfterRace ==
    [][\A s \in session \ session' :
          (s.op = "create_award" /\ Len(awards') > Len(awards)) =>
              ~ExistingAward(s.nomination_id)]_vars

\* C40: a bulk job a worker picked up does not stay 'processing' after the
\* worker has returned, and once a cancel has been committed (it is the last
\* response: the worker answers nobody) the worker finishes at most the row it
\* has in progress and begins no further row.
C40_WorkerStopsAfterCancel ==
    /\ [](\A j \in DOMAIN bulk_jobs :
             bulk_jobs[j].status = "processing" =>
                 \E s \in session : s.op = "process_bulk_job" /\ s.job = j)
    /\ [][(resp.op = "cancel_bulk_job" /\ resp.code = 200) =>
             \A s \in session' :
                 (s.op = "process_bulk_job" /\ s.pc = "row") => s \in session]_vars

====
